---- MODULE Spec2Model ----
(***************************************************************************)
(* Model of the xlsx price rewriter of Accessories_bot                     *)
(* (src/xlsx_image_preserving_processor.py).                               *)
(*                                                                         *)
(* An xlsx file is a zip archive: a function from member paths to member   *)
(* contents.  A member is a file of the archive (spec.md, glossary).  A    *)
(* path is a sequence of names, "xl/worksheets/sheet1.xml" being           *)
(* <<"xl", "worksheets", "sheet1.xml">>.  A worksheet document is kept as  *)
(* the tree ElementTree parses it to: rows, cells, attributes and value    *)
(* texts.  Numbers are integer valued; a value text records how the number *)
(* is spelled ("100" or "100.0"), because float() reads both and           *)
(* str(float) writes only the second.                                      *)
(***************************************************************************)
EXTENDS Integers, Sequences, FiniteSets, TLC

\* The longest worksheet (in rows) an input archive holds.
MaxRows == 2

(***************************************************************************)
(* Value texts, cells, rows, member contents                               *)
(***************************************************************************)

\* The text of a <v> element.  k = "none": the cell has no <v> element;
\* "empty": <v></v>; "int": digits ("100"); "dec": digits ".0" ("100.0");
\* "word": text float() rejects ("N/A"); "inf", "Infinity", "nan": spellings
\* float() accepts as non-finite values; "1e999": digits with an exponent
\* too large for a float, which float() reads as infinity.
Txt(k, n) == [k |-> k, n |-> n]

Cell(col, row, t, v) == [col |-> col, row |-> row, t |-> t, v |-> v]

\* A <row>; r is its "r" attribute: absent, an integer, or not an integer.
Row(r, cells) == [r |-> r, cells |-> cells]
RInt(n) == [k |-> "int", n |-> n]
RNone == [k |-> "none", n |-> 0]
RBad == [k |-> "bad", n |-> 0]

\* A member's content.  kind = "blob": bytes that are no XML document;
\* "xml": a well-formed document without <sheetData>; "sheet": a worksheet
\* document.  ser = "orig": the bytes as found; "et": the bytes
\* ElementTree.write produced.
Blob(id) == [kind |-> "blob", id |-> id, rows |-> <<>>, ser |-> "orig"]
Xml(id) == [kind |-> "xml", id |-> id, rows |-> <<>>, ser |-> "orig"]
Sheet(rows) == [kind |-> "sheet", id |-> "sheet", rows |-> rows, ser |-> "orig"]

(***************************************************************************)
(* Column letters: XlsxImagePreservingProcessor._column_number_to_letter   *)
(***************************************************************************)

Letters ==
  << "A", "B", "C", "D", "E", "F", "G", "H", "I", "J", "K", "L", "M",
     "N", "O", "P", "Q", "R", "S", "T", "U", "V", "W", "X", "Y", "Z" >>

Reverse(s) == [i \in 1..Len(s) |-> s[Len(s) + 1 - i]]

\* The loop without its decrement: the letters counted from 0.
RECURSIVE ColumnLoop_zero_based(_, _)
ColumnLoop_zero_based(column_number, result) ==
  IF column_number > 0
    THEN ColumnLoop_zero_based(column_number \div 26,
                               Append(result, Letters[(column_number % 26) + 1]))
    ELSE result

\* The while loop: one letter per round, least significant first.
RECURSIVE ColumnLoop(_, _)
ColumnLoop(column_number, result) ==
  IF column_number > 0
    THEN ColumnLoop((column_number - 1) \div 26,
                    Append(result, Letters[((column_number - 1) % 26) + 1]))
    ELSE result

\* A column's letters as a sequence of one-letter strings: 4 -> <<"D">>,
\* 27 -> <<"A", "A">>.
_column_number_to_letter(column_number) == Reverse(ColumnLoop(column_number, <<>>))

(***************************************************************************)
(* float(text), old_price + markup, str(new_price)                         *)
(***************************************************************************)

\* A lenient parse that reads text that is no number as 0.
ParseFloat_lenient(v) ==
  CASE v.k \in {"int", "dec"} -> [ok |-> TRUE, c |-> "fin", n |-> v.n]
    [] v.k \in {"inf", "Infinity", "1e999"} -> [ok |-> TRUE, c |-> "inf", n |-> 0]
    [] v.k = "nan" -> [ok |-> TRUE, c |-> "nan", n |-> 0]
    [] OTHER -> [ok |-> TRUE, c |-> "fin", n |-> 0]

\* float(text): ok = FALSE is ValueError.  c = "fin": the finite number n.
ParseFloat(v) ==
  CASE v.k \in {"int", "dec"} -> [ok |-> TRUE, c |-> "fin", n |-> v.n]
    [] v.k \in {"inf", "Infinity", "1e999"} -> [ok |-> TRUE, c |-> "inf", n |-> 0]
    [] v.k = "nan" -> [ok |-> TRUE, c |-> "nan", n |-> 0]
    [] OTHER -> [ok |-> FALSE, c |-> "err", n |-> 0]

\* The markup taken for a percentage.
FloatAdd_percent(x, markup) ==
  IF x.c = "fin" THEN [x EXCEPT !.n = x.n + (x.n * markup) \div 100] ELSE x

FloatAdd(x, markup) == IF x.c = "fin" THEN [x EXCEPT !.n = x.n + markup] ELSE x

\* A number written with the locale's decimal comma, which float() rejects.
StrFloat_locale(x) ==
  CASE x.c = "fin" -> Txt("word", x.n)
    [] x.c = "inf" -> Txt("inf", 0)
    [] x.c = "nan" -> Txt("nan", 0)

\* str(float): 150.0 is written "150.0", an infinity "inf", a NaN "nan".
StrFloat(x) ==
  CASE x.c = "fin" -> Txt("dec", x.n)
    [] x.c = "inf" -> Txt("inf", 0)
    [] x.c = "nan" -> Txt("nan", 0)

(***************************************************************************)
(* The cell rewriter: XlsxImagePreservingProcessor._update_sheet_prices    *)
(***************************************************************************)

\* int(row.get('r', 0)); a row whose r is no integer raises ValueError.
RowNum(row) == IF row.r.k = "int" THEN row.r.n ELSE 0
RowRaises(row) == row.r.k = "bad"

\* Lines 143-153: the cell is the one at cell_ref, its type is a number's,
\* it has a non-empty value text, and float() accepts the text.
CellIsUpdated(cell, column_letter, row_num) ==
  /\ cell.col = column_letter /\ cell.row = row_num
  /\ cell.t \in {"none", "n"}
  /\ cell.v.k \notin {"none", "empty"}
  /\ ParseFloat(cell.v).ok

\* Lines 153-155.
NewCell(cell, markup) ==
  [cell EXCEPT !.v = StrFloat(FloatAdd(ParseFloat(cell.v), markup))]

\* The header test with < for <=.
RowIsData_offbyone(row, header_row) == ~(RowNum(row) < header_row)

\* Lines 134-138: is the row past the header?
RowIsData(row, header_row) == ~(RowNum(row) <= header_row)

\* One round of the loop over the rows (lines 133-158): the row as the loop
\* leaves it in the tree.
UpdateRow(row, column_letter, markup, header_row) ==
  IF RowIsData(row, header_row)
    THEN [row EXCEPT !.cells =
            [j \in 1..Len(row.cells) |->
               IF CellIsUpdated(row.cells[j], column_letter, RowNum(row))
                 THEN NewCell(row.cells[j], markup)
                 ELSE row.cells[j]]]
    ELSE row

\* A counter that counts rows instead of cells.
RowUpdates_perrow(row, column_letter, header_row) ==
  IF /\ RowIsData(row, header_row)
     /\ \E j \in 1..Len(row.cells) :
          CellIsUpdated(row.cells[j], column_letter, RowNum(row))
    THEN 1
    ELSE 0

\* What one round adds to updated_count.
RowUpdates(row, column_letter, header_row) ==
  IF RowIsData(row, header_row)
    THEN Cardinality({j \in 1..Len(row.cells) :
                        CellIsUpdated(row.cells[j], column_letter, RowNum(row))})
    ELSE 0

RECURSIVE CountLoop(_, _, _, _)
CountLoop(rows, i, column_letter, header_row) ==
  IF i > Len(rows)
    THEN 0
    ELSE RowUpdates(rows[i], column_letter, header_row)
         + CountLoop(rows, i + 1, column_letter, header_row)

\* The call on one file: the file's content afterwards, the count returned,
\* and whether the except clause of line 164 ran (err).  ET.parse raises on
\* bytes that are no XML; int() raises on a row number that is no integer;
\* either way nothing was written and 0 is returned.  A document without
\* sheetData returns 0 before the write.
_update_sheet_prices(content, markup, price_column, header_row) ==
  LET column_letter == _column_number_to_letter(price_column)
  IN  CASE content.kind = "blob" ->
             [content |-> content, count |-> 0, err |-> TRUE]
        [] content.kind = "xml" ->
             [content |-> content, count |-> 0, err |-> FALSE]
        [] content.kind = "sheet" ->
             IF \E i \in 1..Len(content.rows) : RowRaises(content.rows[i])
               THEN [content |-> content, count |-> 0, err |-> TRUE]
               ELSE [content |->
                       [content EXCEPT
                          !.rows = [i \in 1..Len(content.rows) |->
                                      UpdateRow(content.rows[i], column_letter,
                                                markup, header_row)],
                          !.ser = "et"],
                     count |-> CountLoop(content.rows, 1, column_letter, header_row),
                     err |-> FALSE]

(***************************************************************************)
(* Files, archives and the extracted directory tree                        *)
(***************************************************************************)

\* An archive's members (or a directory tree's files): a function from
\* paths to contents.
NoMembers == [p \in {} |-> Blob("")]

\* A file of the file system: absent, bytes that are no zip archive, or a
\* zip archive.
Missing == [kind |-> "missing", id |-> "", members |-> NoMembers]
Garbage(id) == [kind |-> "garbage", id |-> id, members |-> NoMembers]
Zip(members) == [kind |-> "zip", id |-> "", members |-> members]

IsPrefix(p, q) == Len(p) <= Len(q) /\ SubSeq(q, 1, Len(p)) = p

\* The scratch directory of the call and the directory the archive is
\* extracted to (line 57).
temp_dir == << "tmp" >>
extract_dir == temp_dir \o << "xlsx_content" >>

\* ZipFile.extractall (line 59) writes each member to extract_dir/<name>.
\* It raises when a member would have to be a file and a directory at once.
ExtractRaises(members) ==
  \E p, q \in DOMAIN members : p # q /\ IsPrefix(p, q)

ExtractAll(members) ==
  [f \in {extract_dir \o p : p \in DOMAIN members} |->
     members[SubSeq(f, Len(extract_dir) + 1, Len(f))]]

\* The directory tree a set of files spans.
IsFile(files, path) == path \in DOMAIN files
IsDir(files, path) == \E f \in DOMAIN files : f # path /\ IsPrefix(path, f)

\* os.listdir(dir): the names directly in dir, files and directories.
ListDir(files, dir) ==
  {f[Len(dir) + 1] : f \in {g \in DOMAIN files : g # dir /\ IsPrefix(dir, g)}}

\* A walk that does not descend into the directories.
Walk_flat(files, top) ==
  {top \o << n >> : n \in {m \in ListDir(files, top) : IsFile(files, top \o << m >>)}}

\* os.walk(top) with the loop over its files (lines 81-83): every file at
\* any depth under top.
RECURSIVE Walk(_, _)
Walk(files, top) ==
  {top \o << n >> : n \in {m \in ListDir(files, top) : IsFile(files, top \o << m >>)}}
  \cup UNION {Walk(files, top \o << n >>) :
                n \in {m \in ListDir(files, top) : IsDir(files, top \o << m >>)}}

\* os.path.relpath(file_path, extract_dir) (line 84).
RelPath(file_path, start) == SubSeq(file_path, Len(start) + 1, Len(file_path))

\* Lines 80-85: the archive written from the tree.
Repack(files) ==
  [a \in {RelPath(f, extract_dir) : f \in Walk(files, extract_dir)} |->
     files[extract_dir \o a]]

\* Line 62.
worksheets_dir == extract_dir \o << "xl", "worksheets" >>

\* A test for '.xml' anywhere in the name instead of at its end.
EndsWithXml_contains(name) ==
  name \in {"[Content_Types].xml", "workbook.xml", "sheet1.xml", "sheet2.xml",
            "sheet1.xml.bak", "sheet1.xml.rels"}

\* str.endswith('.xml') on the names the model's archives use.
EndsWithXml(name) ==
  name \in {"[Content_Types].xml", "workbook.xml", "sheet1.xml", "sheet2.xml"}

\* Lines 70-71: the names of the listing that are taken for worksheets.
SheetFiles(names) == {n \in names : EndsWithXml(n)}

(***************************************************************************)
(* The inputs                                                              *)
(***************************************************************************)

ColC == << "C" >>
ColD == << "D" >>

\* The rows worksheets are made of.  Rows 6, 7 and 8 with D6 = 100,
\* D7 = "N/A" and D8 = 250 are the rows of the end-to-end scenario of
\* spec.md, section 8.
RowChoices ==
  { Row(RInt(5), << Cell(ColD, 5, "none", Txt("int", 100)) >>),
    Row(RInt(6), << Cell(ColD, 6, "none", Txt("int", 100)) >>),
    Row(RInt(7), << Cell(ColD, 7, "none", Txt("word", 0)) >>),
    Row(RInt(8), << Cell(ColD, 8, "n", Txt("int", 250)) >>),
    Row(RInt(6), << Cell(ColC, 6, "none", Txt("int", 100)),
                    Cell(ColD, 6, "s", Txt("int", 3)) >>),
    Row(RBad, << Cell(ColD, 6, "none", Txt("int", 100)) >>),
    Row(RNone, << Cell(ColD, 0, "none", Txt("int", 100)) >>),
    Row(RInt(7), << Cell(ColD, 7, "none", Txt("empty", 0)),
                    Cell(ColD, 7, "none", Txt("none", 0)),
                    Cell(ColD, 7, "none", Txt("dec", 100)) >>),
    Row(RInt(8), << Cell(ColD, 8, "none", Txt("Infinity", 0)),
                    Cell(ColD, 8, "none", Txt("nan", 0)),
                    Cell(ColD, 9, "none", Txt("int", 100)) >>) }

SeqsUpTo(S, n) == UNION {[1..k -> S] : k \in 0..n}

\* The worksheet of the end-to-end scenario of spec.md, section 8: header
\* row 5, D6 = 100, D7 = "N/A", D8 = 250.
ScenarioSheet ==
  Sheet(<< Row(RInt(5), << Cell(ColD, 5, "none", Txt("int", 100)) >>),
           Row(RInt(6), << Cell(ColD, 6, "none", Txt("int", 100)) >>),
           Row(RInt(7), << Cell(ColD, 7, "none", Txt("word", 0)) >>),
           Row(RInt(8), << Cell(ColD, 8, "n", Txt("int", 250)) >>) >>)

\* The contents a worksheet member may have.
Docs ==
  {Blob("notxml"), Xml("chartsheet"), ScenarioSheet}
  \cup {Sheet(rows) : rows \in SeqsUpTo(RowChoices, MaxRows)}

\* The same with at most one row, for the archives of two worksheets.
SmallDocs == {d \in Docs : Len(d.rows) <= 1}

P_types == << "[Content_Types].xml" >>
P_workbook == << "xl", "workbook.xml" >>
P_image == << "xl", "media", "image1.png" >>
P_rels == << "xl", "worksheets", "_rels", "sheet1.xml.rels" >>
P_backup == << "xl", "worksheets", "sheet1.xml.bak" >>
P_sheet1 == << "xl", "worksheets", "sheet1.xml" >>
P_sheet2 == << "xl", "worksheets", "sheet2.xml" >>

\* The members every workbook of the model has besides its worksheets: the
\* manifest, the workbook, an image, a relationship part, and a file in
\* xl/worksheets that holds a worksheet document but is not named *.xml.
BaseMembers ==
  (P_types :> Xml("types")) @@ (P_workbook :> Xml("workbook"))
  @@ (P_image :> Blob("png")) @@ (P_rels :> Xml("rels"))
  @@ (P_backup :> Sheet(<< Row(RInt(6), << Cell(ColD, 6, "none", Txt("int", 100)) >>) >>))

InputFiles ==
  {Zip(BaseMembers @@ (P_sheet1 :> d)) : d \in Docs}
  \cup {Zip(BaseMembers @@ (P_sheet1 :> d[1]) @@ (P_sheet2 :> d[2])) :
          d \in SmallDocs \X SmallDocs}
  \cup { \* no xl/worksheets directory
         Zip((P_types :> Xml("types")) @@ (P_workbook :> Xml("workbook"))),
         \* xl/worksheets is a file
         Zip((P_types :> Xml("types")) @@ (<< "xl", "worksheets" >> :> Blob("file"))),
         \* xl is a file and a directory
         Zip((<< "xl" >> :> Blob("file")) @@ (P_workbook :> Xml("workbook"))),
         Garbage("notzip"),
         Missing }

\* config.py: the markups of the configured processors, the header row and
\* the price column (and one more of each).
Markups == {50, 200}
PriceColumns == {3, 4}
HeaderRows == {5, 6}

(***************************************************************************)
(* update_prices_in_xlsx, step by step                                     *)
(***************************************************************************)

VARIABLES
  fs,             \* the files: path -> file
  req,            \* the call's arguments
  pc,             \* where the call is
  tree,           \* the scratch directory: [exists, files]
  todo,           \* the worksheet names the loop of line 70 has yet to visit
  total_updated,  \* line 67
  log,            \* the sheets logger.error (line 165) has reported
  e,              \* the exception the except clause of line 90 caught
  ret,            \* how the call ended
  call,           \* 1: input -> output; 2: output -> output2
  first           \* what call 1 returned

\* Two calls that run interleaved (the section on concurrent rewrites).
VARIABLES
  disk,           \* the files the two calls read and write: path -> file
  scratch,        \* the directories under the system's temporary directory
  proc            \* each call: its arguments and where it is

\* _column_number_to_letter on its own.
VARIABLES
  colnum,         \* the argument column_number
  colname         \* the letters returned

\* process_file, process_directory and the handler of downloaded files.
VARIABLES
  store,          \* the bot's files: [files: path -> file, dirs: paths]
  pf,             \* the call of process_file
  pd,             \* the call of process_directory
  hd              \* the call of _handle_xtreme_case_file

\* ChannelMonitorBot.handle_document on the updates it is given.
VARIABLES
  upd,            \* the update being handled: its chat and its document
  cm              \* the bot: where the handler is, its statistics, its trace

\* TelegramUserReader and GoogleSheetsReader: the monitoring loops.
VARIABLES
  now,            \* the clock
  posts,          \* the messages of the monitored channel, oldest first
  tm,             \* the Telegram reader: last_check_time and its loop
  gs              \* the Google Sheets reader: its loop

\* UnifiedPriceBot: the two file handlers as interleaved tasks.
VARIABLES
  udisk,          \* temp_dir: path -> file
  xh,             \* the task of _handle_xtreme_case_file
  rh,             \* the task of _handle_cifrovoy_ray_file
  stats,          \* self.stats
  target          \* the documents the target channel has received

coreVars == << fs, req, pc, tree, todo, total_updated, log, e, ret, call, first >>
pairVars == << disk, scratch, proc >>
letterVars == << colnum, colname >>
botVars == << store, pf, pd, hd >>
chanVars == << upd, cm >>
monVars == << now, posts, tm, gs >>
uniVars == << udisk, xh, rh, stats, target >>
vars == << coreVars, pairVars, letterVars, botVars, chanVars, monVars, uniVars >>

\* What a single call of update_prices_in_xlsx leaves alone.
notCore == << pairVars, letterVars, botVars, chanVars, monVars, uniVars >>

\* What a pair of calls leaves alone.
notPair == << coreVars, letterVars, botVars, chanVars, monVars, uniVars >>

\* What a conversion leaves alone.
notLetters == << coreVars, pairVars, botVars, chanVars, monVars, uniVars >>

\* What the bot's calls leave alone.
notBot == << coreVars, pairVars, letterVars, chanVars, monVars, uniVars >>

\* What the channel bot's handler leaves alone.
notChan == << coreVars, pairVars, letterVars, botVars, monVars, uniVars >>

\* What the monitoring loops leave alone.
notMon == << coreVars, pairVars, letterVars, botVars, chanVars, uniVars >>

\* What the unified bot's handlers leave alone.
notUni == << coreVars, pairVars, letterVars, botVars, chanVars, monVars >>

\* No pair of calls is running.
PairIdle == disk = << >> /\ scratch = << >> /\ proc = << >>

\* No conversion is asked for.
LettersIdle == colnum = 0 /\ colname = << >>

\* No call of the bot is running.
BotIdle == store = << >> /\ pf = << >> /\ pd = << >> /\ hd = << >>

\* No update is being handled.
ChanIdle == upd = << >> /\ cm = << >>

\* No monitoring loop is running.
MonIdle == now = 0 /\ posts = << >> /\ tm = << >> /\ gs = << >>

\* No handler of the unified bot is running.
UniIdle ==
  udisk = << >> /\ xh = << >> /\ rh = << >> /\ stats = << >> /\ target = {}

\* Nothing but the processors is running.
ServicesIdle == ChanIdle /\ MonIdle /\ UniIdle

\* A scratch directory that is emptied but stays on the disk.
NoTree_kept == [exists |-> TRUE, files |-> NoMembers]

\* The scratch directory after the with block of line 52 is left, and
\* before it is entered: there is none.
NoTree == [exists |-> FALSE, files |-> NoMembers]

NoRet == [k |-> "none", n |-> 0]
Returned(n) == [k |-> "int", n |-> n]
Raised == [k |-> "raise", n |-> 0]

Init ==
  \E f \in InputFiles, m \in Markups, c \in PriceColumns, h \in HeaderRows :
    /\ fs = [p \in {"input", "output", "output2"} |->
               IF p = "input" THEN f ELSE Missing]
    /\ req = [input_file |-> "input", output_file |-> "output",
              markup |-> m, price_column |-> c, header_row |-> h]
    /\ pc = "start"
    /\ tree = NoTree
    /\ todo = {}
    /\ total_updated = 0
    /\ log = {}
    /\ e = "none"
    /\ ret = NoRet
    /\ call = 1
    /\ first = [ret |-> NoRet, e |-> "none"]
    /\ PairIdle
    /\ LettersIdle
    /\ BotIdle
    /\ ServicesIdle

\* Line 52: the scratch directory is created.
MakeTemp ==
  /\ pc = "start"
  /\ tree' = [exists |-> TRUE, files |-> NoMembers]
  /\ pc' = "copy"
  /\ UNCHANGED << fs, req, todo, total_updated, log, e, ret, call, first >>
  /\ UNCHANGED notCore

\* shutil.copy2(input_file, output_file) raises when there is no input.
CopyRaises == fs[req.input_file].kind = "missing"

\* Line 54: the files after the initial copy.
InitialCopy == [fs EXCEPT ![req.output_file] = fs[req.input_file]]

\* An except clause that returns 0 without the copy.
FallbackCopy_missing == fs

\* Line 93: the files after the copy of the except clause.
FallbackCopy == [fs EXCEPT ![req.output_file] = fs[req.input_file]]

\* Line 54.  An exception leaves the with block, which removes the scratch
\* directory, and reaches the except clause of line 90.
CopyInput ==
  /\ pc = "copy"
  /\ IF CopyRaises
       THEN /\ pc' = "except"
            /\ e' = "FileNotFoundError"
            /\ tree' = NoTree
            /\ fs' = fs
       ELSE /\ pc' = "extract"
            /\ e' = e
            /\ tree' = tree
            /\ fs' = InitialCopy
  /\ UNCHANGED << req, todo, total_updated, log, ret, call, first >>
  /\ UNCHANGED notCore

\* Lines 57-59: BadZipFile on a file that is no archive, an error on an
\* archive that does not fit a directory tree.
Extract ==
  /\ pc = "extract"
  /\ IF fs[req.output_file].kind # "zip"
       THEN /\ pc' = "except"
            /\ e' = "BadZipFile"
            /\ tree' = NoTree
       ELSE IF ExtractRaises(fs[req.output_file].members)
         THEN /\ pc' = "except"
              /\ e' = "FileExistsError"
              /\ tree' = NoTree
         ELSE /\ pc' = "locate"
              /\ e' = e
              /\ tree' = [tree EXCEPT !.files = ExtractAll(fs[req.output_file].members)]
  /\ UNCHANGED << fs, req, todo, total_updated, log, ret, call, first >>
  /\ UNCHANGED notCore

\* Lines 57-59, the disk filling up while the members are written.
ExtractFault ==
  /\ pc = "extract"
  /\ pc' = "except"
  /\ e' = "OSError"
  /\ tree' = NoTree
  /\ UNCHANGED << fs, req, todo, total_updated, log, ret, call, first >>
  /\ UNCHANGED notCore

\* A test that finds the worksheets directory in every tree.
WorksheetsExists_always(files) == TRUE

\* Line 62: os.path.exists(worksheets_dir), true of a file and of a
\* directory.
WorksheetsExists(files) ==
  IsFile(files, worksheets_dir) \/ IsDir(files, worksheets_dir)

\* Lines 62-70: without the worksheets directory the call returns 0;
\* os.listdir raises when xl/worksheets is a file; otherwise the loop
\* starts on the listing.
Locate ==
  /\ pc = "locate"
  /\ IF ~WorksheetsExists(tree.files)
       THEN /\ pc' = "done"
            /\ e' = e
            /\ ret' = Returned(0)
            /\ tree' = NoTree
            /\ todo' = todo
       ELSE IF IsFile(tree.files, worksheets_dir)
         THEN /\ pc' = "except"
              /\ e' = "NotADirectoryError"
              /\ ret' = ret
              /\ tree' = NoTree
              /\ todo' = todo
         ELSE /\ pc' = "sheets"
              /\ e' = e
              /\ ret' = ret
              /\ tree' = tree
              /\ todo' = SheetFiles(ListDir(tree.files, worksheets_dir))
  /\ total_updated' = 0
  /\ UNCHANGED << fs, req, log, call, first >>
  /\ UNCHANGED notCore

\* A loop in which a worksheet is rewritten with what the worksheets
\* before it have counted added to the markup.
RewriteSheet_running ==
  /\ pc = "sheets"
  /\ \E sheet_file \in todo :
       LET sheet_path == worksheets_dir \o << sheet_file >>
           r == _update_sheet_prices(tree.files[sheet_path],
                                     req.markup + total_updated,
                                     req.price_column, req.header_row)
       IN  /\ tree' = [tree EXCEPT !.files[sheet_path] = r.content]
           /\ total_updated' = total_updated + r.count
           /\ log' = IF r.err THEN log \cup {sheet_file} ELSE log
           /\ todo' = todo \ {sheet_file}
  /\ UNCHANGED << fs, req, pc, e, ret, call, first >>
  /\ UNCHANGED notCore

\* Lines 70-77: one round of the loop, on any name the listing still
\* holds (os.listdir promises no order).
RewriteSheet ==
  /\ pc = "sheets"
  /\ \E sheet_file \in todo :
       LET sheet_path == worksheets_dir \o << sheet_file >>
           r == _update_sheet_prices(tree.files[sheet_path], req.markup,
                                     req.price_column, req.header_row)
       IN  /\ tree' = [tree EXCEPT !.files[sheet_path] = r.content]
           /\ total_updated' = total_updated + r.count
           /\ log' = IF r.err THEN log \cup {sheet_file} ELSE log
           /\ todo' = todo \ {sheet_file}
  /\ UNCHANGED << fs, req, pc, e, ret, call, first >>
  /\ UNCHANGED notCore

\* Lines 80-88: the archive is written over the output file and the total
\* is returned; leaving the with block removes the scratch directory.
RepackAndReturn ==
  /\ pc = "sheets"
  /\ todo = {}
  /\ fs' = [fs EXCEPT ![req.output_file] = Zip(Repack(tree.files))]
  /\ ret' = Returned(total_updated)
  /\ tree' = NoTree
  /\ pc' = "done"
  /\ UNCHANGED << req, todo, total_updated, log, e, call, first >>
  /\ UNCHANGED notCore

\* Lines 80-85, the disk filling up while the archive is written: the
\* output file, truncated when it was opened, is left half written.
RepackFault ==
  /\ pc = "sheets"
  /\ todo = {}
  /\ fs' = [fs EXCEPT ![req.output_file] = Garbage("partial")]
  /\ tree' = NoTree
  /\ pc' = "except"
  /\ e' = "OSError"
  /\ UNCHANGED << req, todo, total_updated, log, ret, call, first >>
  /\ UNCHANGED notCore

\* An except clause that logs and raises again.
Except_reraise ==
  /\ pc = "except"
  /\ ret' = Raised
  /\ pc' = "done"
  /\ UNCHANGED << fs, req, tree, todo, total_updated, log, e, call, first >>
  /\ UNCHANGED notCore

\* Lines 90-94: the input is copied over the output again and 0 is
\* returned; an exception of this copy leaves the call.
Except ==
  /\ pc = "except"
  /\ IF CopyRaises
       THEN /\ ret' = Raised
            /\ fs' = fs
       ELSE /\ ret' = Returned(0)
            /\ fs' = FallbackCopy
  /\ pc' = "done"
  /\ UNCHANGED << req, tree, todo, total_updated, log, e, call, first >>
  /\ UNCHANGED notCore

\* The chain input -> output -> output2: a second call with the same
\* markup, column and header row on the output of the first.
NextCall ==
  /\ pc = "done"
  /\ call = 1
  /\ ret.k = "int"
  /\ req' = [req EXCEPT !.input_file = "output", !.output_file = "output2"]
  /\ first' = [ret |-> ret, e |-> e]
  /\ call' = 2
  /\ pc' = "start"
  /\ e' = "none"
  /\ ret' = NoRet
  /\ log' = {}
  /\ total_updated' = 0
  /\ UNCHANGED << fs, tree, todo >>
  /\ UNCHANGED notCore

Next ==
  \/ MakeTemp
  \/ CopyInput
  \/ Extract
  \/ ExtractFault
  \/ Locate
  \/ RewriteSheet
  \/ RepackAndReturn
  \/ RepackFault
  \/ Except
  \/ NextCall

Spec == Init /\ [][Next]_vars

(***************************************************************************)
(* The claims                                                              *)
(***************************************************************************)

InputFile == fs[req.input_file]
OutputFile == fs[req.output_file]
ReturnedNormally == pc = "done" /\ ret.k = "int"

\* The worksheet documents of the model's archives: the files directly in
\* xl/worksheets whose name ends in .xml.
WorksheetDocuments == {P_sheet1, P_sheet2}

\* C1 (non-interference): after update_prices_in_xlsx returns, every member
\* of the input archive other than the worksheet documents is in the output
\* with exactly the bytes it has in the input.
C1_NonInterference ==
  ReturnedNormally =>
    \A p \in DOMAIN InputFile.members \ WorksheetDocuments :
      /\ p \in DOMAIN OutputFile.members
      /\ OutputFile.members[p] = InputFile.members[p]

\* A call that rewrote prices in an archive that holds an image.
C1_Witness ==
  /\ ReturnedNormally /\ e = "none" /\ ret.n > 0
  /\ P_image \in DOMAIN InputFile.members
  /\ OutputFile # InputFile

\* C2 (all-or-nothing fallback): when a step after the initial copy raised
\* (extraction, sheet enumeration, repacking), the call returns 0 and the
\* output file is byte for byte the input file.
C2_AllOrNothingFallback ==
  (pc = "done" /\ e \notin {"none", "FileNotFoundError"}) =>
    /\ ret = Returned(0)
    /\ OutputFile = InputFile

\* The repack failed after prices had been rewritten in the scratch
\* directory, and the call has ended.
C2_Witness ==
  /\ pc = "done" /\ e = "OSError"
  /\ InputFile.kind = "zip"
  /\ total_updated > 0

\* C3 (error in one worksheet): when the rewrite of a worksheet document
\* raised, the call returns 0 and no worksheet of the output has a cell
\* that differs from the input's.
C3_SheetErrorFallsBack ==
  (ReturnedNormally /\ log # {}) =>
    /\ ret.n = 0
    /\ \A p \in DOMAIN InputFile.members \cap WorksheetDocuments :
         /\ p \in DOMAIN OutputFile.members
         /\ OutputFile.members[p].rows = InputFile.members[p].rows

(***************************************************************************)
(* The cells of a worksheet document, as the claims speak of them          *)
(***************************************************************************)

\* The conventional letter of the target column (columns 1 to 26).
TargetLetter == << Letters[req.price_column] >>

HasNumber(row) == row.r.k = "int"
BelowHeader(row) == HasNumber(row) /\ row.r.n > req.header_row

\* The cell is the target column's cell of its row.
AtTarget(cell, row) ==
  HasNumber(row) /\ cell.col = TargetLetter /\ cell.row = row.r.n

\* The value text is a finite real number; ... is a number float() reads.
IsFinite(cell) == cell.v.k \in {"int", "dec"}
IsRead(cell) == cell.v.k \in {"int", "dec", "inf", "Infinity", "nan", "1e999"}

\* Eligibility as spec.md, section 3, states it: (a) type tag, (b) column,
\* (c) row below the header, (d) a finite real number.
Eligible(cell, row) ==
  /\ cell.t \in {"none", "n"}
  /\ AtTarget(cell, row)
  /\ BelowHeader(row)
  /\ IsFinite(cell)

\* The positions <<i, j>> of a document's cells: cell j of row i.
Positions(doc) ==
  UNION {{<< i, j >> : j \in 1..Len(doc.rows[i].cells)} : i \in 1..Len(doc.rows)}

CellAt(doc, pos) == doc.rows[pos[1]].cells[pos[2]]
RowAt(doc, pos) == doc.rows[pos[1]]

\* Two documents with the same rows and as many cells in each.
SameShape(a, b) ==
  /\ Len(a.rows) = Len(b.rows)
  /\ \A i \in 1..Len(a.rows) :
       /\ a.rows[i].r = b.rows[i].r
       /\ Len(a.rows[i].cells) = Len(b.rows[i].cells)

\* The worksheet documents of the input.
InputSheets == DOMAIN InputFile.members \cap WorksheetDocuments

\* The worksheet documents _update_sheet_prices has written in this call:
\* visited by the loop, and not reported by the except clause of line 164.
Rewritten ==
  IF pc = "sheets"
    THEN {p \in InputSheets : p[3] \notin todo /\ p[3] \notin log}
    ELSE {}

Before(p) == InputFile.members[p]
After(p) == tree.files[extract_dir \o p]

\* C4 (cell eligibility): _update_sheet_prices changes a cell if and only
\* if the cell is eligible: type tag absent or n, reference the target
\* column's in its row, row below the header, value a finite real number.
C4_RewrittenIffEligible ==
  \A p \in Rewritten :
    /\ SameShape(Before(p), After(p))
    /\ \A pos \in Positions(Before(p)) :
         (CellAt(After(p), pos) # CellAt(Before(p), pos))
           <=> Eligible(CellAt(Before(p), pos), RowAt(Before(p), pos))

\* The number of cells of member p of file f that satisfy Counted.
CountIn(f, p, Counted(_, _)) ==
  IF p \in DOMAIN f.members
    THEN Cardinality({pos \in Positions(f.members[p]) :
                        Counted(CellAt(f.members[p], pos), RowAt(f.members[p], pos))})
    ELSE 0

\* A target-column cell in a row below the header whose value is read as a
\* number, whatever its type tag and the row its reference names.
InTargetColumnAndRead(cell, row) ==
  /\ cell.col = TargetLetter
  /\ BelowHeader(row)
  /\ IsRead(cell)

\* The cells the loop counts: eligible but for the finiteness of the value.
TaggedAtTargetAndRead(cell, row) ==
  /\ cell.t \in {"none", "n"}
  /\ AtTarget(cell, row)
  /\ BelowHeader(row)
  /\ IsRead(cell)

\* C5 as stated (count accuracy): the count returned is the number of
\* target-column cells in rows below the header, over all worksheet
\* documents, whose value parsed as a number.
C5_CountAllParsedTargetCells ==
  (ReturnedNormally /\ e = "none" /\ log = {}) =>
    ret.n = CountIn(InputFile, P_sheet1, InTargetColumnAndRead)
            + CountIn(InputFile, P_sheet2, InTargetColumnAndRead)

\* C5 as amended: the count returned is the number of cells with type tag
\* absent or n, at the target column's reference of their row, in a row
\* below the header, whose value text float() reads, summed over the
\* worksheet documents whose rewrite did not raise; it is 0 when the call
\* fell back.
C5_CountAccuracy ==
  ReturnedNormally =>
    ret.n = IF e = "none"
              THEN (IF "sheet1.xml" \in log THEN 0
                      ELSE CountIn(InputFile, P_sheet1, TaggedAtTargetAndRead))
                   + (IF "sheet2.xml" \in log THEN 0
                        ELSE CountIn(InputFile, P_sheet2, TaggedAtTargetAndRead))
              ELSE 0

\* A call that counted a cell and passed over a target-column cell that is
\* tagged as a shared string and holds digits.
C5_Witness ==
  /\ ReturnedNormally /\ e = "none" /\ ret.n > 0
  /\ \E p \in InputSheets : \E pos \in Positions(Before(p)) :
       /\ CellAt(Before(p), pos).t = "s"
       /\ InTargetColumnAndRead(CellAt(Before(p), pos), RowAt(Before(p), pos))

\* C6 (header boundary): in the output of a call, every row of a worksheet
\* whose number is at most header_row (or that has no number) is the row of
\* the input, cell for cell.
C6_HeaderBoundary ==
  ReturnedNormally =>
    \A p \in InputSheets :
      /\ p \in DOMAIN OutputFile.members
      /\ Len(OutputFile.members[p].rows) = Len(Before(p).rows)
      /\ \A i \in 1..Len(Before(p).rows) :
           ~BelowHeader(Before(p).rows[i])
             => OutputFile.members[p].rows[i] = Before(p).rows[i]

\* A call that rewrote prices in an archive whose header row holds a number
\* in the target column.
C6_Witness ==
  /\ ReturnedNormally /\ e = "none" /\ ret.n > 0
  /\ \E p \in InputSheets : \E pos \in Positions(Before(p)) :
       /\ p[3] \notin log
       /\ RowAt(Before(p), pos).r = RInt(req.header_row)
       /\ CellAt(Before(p), pos).t = "none"
       /\ AtTarget(CellAt(Before(p), pos), RowAt(Before(p), pos))
       /\ IsFinite(CellAt(Before(p), pos))

\* The end-to-end scenario of spec.md, section 8.
ScenarioCall ==
  /\ call = 1
  /\ InputFile = Zip(BaseMembers @@ (P_sheet1 :> ScenarioSheet))
  /\ req.markup = 50 /\ req.price_column = 4 /\ req.header_row = 5

\* No worksheet of the input has a target cell with a non-finite value.
AllReadAreFinite ==
  /\ CountIn(InputFile, P_sheet1, TaggedAtTargetAndRead)
       = CountIn(InputFile, P_sheet1, Eligible)
  /\ CountIn(InputFile, P_sheet2, TaggedAtTargetAndRead)
       = CountIn(InputFile, P_sheet2, Eligible)

\* C7 (markup application): in a worksheet whose rewrite completed, every
\* eligible cell holds its old value plus the markup and is otherwise as it
\* was; each is counted once; in the scenario D6 = 150, D7 is unchanged,
\* D8 = 300 and the count is 2.
C7_MarkupApplication ==
  /\ \A p \in Rewritten :
       /\ SameShape(Before(p), After(p))
       /\ \A pos \in Positions(Before(p)) :
            Eligible(CellAt(Before(p), pos), RowAt(Before(p), pos)) =>
              /\ IsFinite(CellAt(After(p), pos))
              /\ CellAt(After(p), pos).v.n = CellAt(Before(p), pos).v.n + req.markup
              /\ [CellAt(After(p), pos) EXCEPT !.v = CellAt(Before(p), pos).v]
                   = CellAt(Before(p), pos)
  /\ (ReturnedNormally /\ e = "none" /\ AllReadAreFinite) =>
       ret.n = (IF "sheet1.xml" \in log THEN 0
                  ELSE CountIn(InputFile, P_sheet1, Eligible))
               + (IF "sheet2.xml" \in log THEN 0
                    ELSE CountIn(InputFile, P_sheet2, Eligible))
  /\ (ReturnedNormally /\ e = "none" /\ ScenarioCall) =>
       /\ ret.n = 2
       /\ P_sheet1 \in DOMAIN OutputFile.members
       /\ LET rows == OutputFile.members[P_sheet1].rows
          IN  /\ Len(rows) = 4
              /\ rows[1] = ScenarioSheet.rows[1]
              /\ IsFinite(rows[2].cells[1]) /\ rows[2].cells[1].v.n = 150
              /\ rows[3] = ScenarioSheet.rows[3]
              /\ IsFinite(rows[4].cells[1]) /\ rows[4].cells[1].v.n = 300

\* The scenario's call has returned.
C7_Witness == ReturnedNormally /\ e = "none" /\ ScenarioCall /\ ret.n = 2

\* A target-column cell in a row below the header without a value node, with
\* an empty one, or with text that is no number.
NonNumericTarget(cell, row) ==
  /\ cell.col = TargetLetter
  /\ BelowHeader(row)
  /\ cell.v.k \in {"none", "empty", "word"}

\* Position a comes before position b in document order.
Precedes(a, b) == a[1] < b[1] \/ (a[1] = b[1] /\ a[2] < b[2])

\* The rewrite of the document raises: no XML, or a row number that is no
\* integer.
DocumentRaises(doc) ==
  doc.kind = "blob" \/ \E i \in 1..Len(doc.rows) : doc.rows[i].r.k = "bad"

\* C8 (non-numeric skip): a non-numeric target cell is left as found; it
\* does not make the rewrite of its worksheet raise, and the eligible cells
\* after it are still rewritten; it is not counted.
C8_NonNumericSkip ==
  /\ \A p \in Rewritten : \A pos \in Positions(Before(p)) :
       NonNumericTarget(CellAt(Before(p), pos), RowAt(Before(p), pos)) =>
         /\ CellAt(After(p), pos) = CellAt(Before(p), pos)
         /\ \A later \in Positions(Before(p)) :
              (/\ Precedes(pos, later)
               /\ Eligible(CellAt(Before(p), later), RowAt(Before(p), later)))
                => CellAt(After(p), later) # CellAt(Before(p), later)
  /\ pc = "sheets" =>
       \A p \in InputSheets :
         (p[3] \notin todo /\ ~DocumentRaises(Before(p))) => p[3] \notin log
  /\ (ReturnedNormally /\ e = "none") =>
       ret.n <= CountIn(InputFile, P_sheet1, TaggedAtTargetAndRead)
                + CountIn(InputFile, P_sheet2, TaggedAtTargetAndRead)

\* A worksheet has been rewritten in which a non-numeric target cell comes
\* before an eligible cell.
C8_Witness ==
  \E p \in Rewritten : \E pos, later \in Positions(Before(p)) :
    /\ NonNumericTarget(CellAt(Before(p), pos), RowAt(Before(p), pos))
    /\ Precedes(pos, later)
    /\ Eligible(CellAt(Before(p), later), RowAt(Before(p), later))

\* C9 (member-set round trip): the output of a call has the member names of
\* the input, no more and no fewer.
C9_MemberSetRoundTrip ==
  ReturnedNormally =>
    /\ OutputFile.kind = InputFile.kind
    /\ DOMAIN OutputFile.members = DOMAIN InputFile.members

\* A call that extracted and repacked an archive with members four
\* directories deep.
C9_Witness ==
  /\ ReturnedNormally /\ e = "none"
  /\ P_rels \in DOMAIN InputFile.members
  /\ OutputFile # InputFile

\* C10 (no idempotence): after the chain input -> output -> output2 with the
\* same positive markup, the second call has returned the count of the
\* first, and every eligible cell of the input holds its value plus twice
\* the markup in output2 (in the worksheets whose rewrite did not raise, and
\* when the disk did not fill up in either call).
C10_TwiceTheMarkup ==
  (call = 2 /\ ReturnedNormally /\ e # "OSError" /\ first.e # "OSError") =>
    /\ ret = first.ret
    /\ LET in == fs["input"]
           out2 == fs["output2"]
       IN  \A p \in DOMAIN in.members \cap WorksheetDocuments :
             /\ p \in DOMAIN out2.members
             /\ SameShape(in.members[p], out2.members[p])
             /\ \A pos \in Positions(in.members[p]) :
                  (/\ p[3] \notin log
                   /\ Eligible(CellAt(in.members[p], pos), RowAt(in.members[p], pos)))
                    => /\ IsFinite(CellAt(out2.members[p], pos))
                       /\ CellAt(out2.members[p], pos).v.n
                            = CellAt(in.members[p], pos).v.n + 2 * req.markup

\* Both calls of the chain rewrote prices.
C10_Witness ==
  /\ call = 2 /\ ReturnedNormally /\ e = "none" /\ first.e = "none"
  /\ req.markup > 0
  /\ ret.n > 0

\* The tree holds nothing at or under xl/worksheets.
NoWorksheets(files) ==
  \A f \in DOMAIN files : ~IsPrefix(worksheets_dir, f)

\* C11 (no worksheets directory): when the extracted archive has no
\* xl/worksheets, the next step of the call is its return of 0: nothing is
\* raised, no file is written (the archive is not repacked), and the output
\* is the initial copy, byte for byte the input.
C11_NoWorksheetsReturnsZero ==
  [][ (pc = "locate" /\ NoWorksheets(tree.files)) =>
        /\ pc' = "done"
        /\ ret' = Returned(0)
        /\ e' = "none"
        /\ fs' = fs
        /\ fs'[req.output_file] = fs'[req.input_file] ]_vars

\* A call on an archive without xl/worksheets has returned.
C11_Witness ==
  /\ ReturnedNormally /\ e = "none"
  /\ InputFile.kind = "zip"
  /\ ~ExtractRaises(InputFile.members)
  /\ NoWorksheets(ExtractAll(InputFile.members))
  /\ OutputFile = InputFile

\* The exceptions of the model that report an I/O error: the input that
\* cannot be read, the disk that fills up while files are written.
IOErrors == {"FileNotFoundError", "OSError"}

ExitPaths == {"repack", "early", "fallback", "raise"}

ExitPath ==
  IF ret = Raised THEN "raise"
  ELSE IF e # "none" THEN "fallback"
  ELSE IF InputFile.kind = "zip" /\ NoWorksheets(ExtractAll(InputFile.members))
    THEN "early"
  ELSE "repack"

\* C13 (scratch-directory release): when a call has ended, on whichever
\* exit path, its temporary working directory does not exist and holds no
\* file.
C13_ScratchReleased ==
  pc = "done" =>
    /\ ExitPath \in ExitPaths
    /\ ~tree.exists
    /\ tree.files = NoMembers

\* A call that rewrote prices in its scratch directory and then failed to
\* repack has ended through the except clause.
C13_Witness ==
  /\ pc = "done" /\ ExitPath = "fallback"
  /\ e = "OSError" /\ total_updated > 0
  /\ ~tree.exists

(***************************************************************************)
(* Two calls of update_prices_in_xlsx that run interleaved                 *)
(***************************************************************************)

\* No single call is running.
CoreIdle ==
  /\ fs = << >> /\ req = << >> /\ pc = "idle" /\ tree = NoTree /\ todo = {}
  /\ total_updated = 0 /\ log = {} /\ e = "none" /\ ret = NoRet
  /\ call = 0 /\ first = << >>

Callers == {1, 2}

\* The names tempfile.mkdtemp can draw.
TempNames == {"tmpa", "tmpb", "tmpc"}

\* A scratch directory of one fixed name.
FreshNames_fixed(dirs) == {"tmpa"}

\* tempfile.TemporaryDirectory (line 52) makes its directory with mkdtemp,
\* under a name that no directory has.
FreshNames(dirs) == {d \in TempNames : ~dirs[d].exists}

\* config.py, ProcessorConfig: the defaults of the price column and of the
\* header row.
price_col_index == 4
header_row == 5

\* The files the two calls are given.
PairInputs ==
  { Zip(BaseMembers @@ (P_sheet1 :> ScenarioSheet)),
    Zip(BaseMembers
        @@ (P_sheet1 :> Sheet(<< Row(RInt(6), << Cell(ColD, 6, "none", Txt("int", 100)) >>) >>))
        @@ (P_sheet2 :> Sheet(<< Row(RInt(7), << Cell(ColD, 7, "n", Txt("int", 250)) >>) >>))),
    Zip((P_types :> Xml("types")) @@ (P_workbook :> Xml("workbook"))),
    Garbage("notzip"),
    Missing }

InitPair ==
  \E f1 \in PairInputs, f2 \in PairInputs, m1 \in Markups, m2 \in Markups,
     i2 \in {"in1", "in2"} :
    /\ disk = [p \in {"in1", "in2", "out1", "out2"} |->
                 IF p = "in1" THEN f1 ELSE IF p = "in2" THEN f2 ELSE Missing]
    /\ scratch = [d \in TempNames |-> NoTree]
    /\ proc = [c \in Callers |->
                 [input_file |-> IF c = 1 THEN "in1" ELSE i2,
                  output_file |-> IF c = 1 THEN "out1" ELSE "out2",
                  markup |-> IF c = 1 THEN m1 ELSE m2,
                  price_column |-> price_col_index,
                  header_row |-> header_row,
                  pc |-> "start", temp_dir |-> "none", todo |-> {},
                  total_updated |-> 0, e |-> "none", ret |-> NoRet,
                  together |-> FALSE]]
    /\ CoreIdle
    /\ LettersIdle
    /\ BotIdle
    /\ ServicesIdle

\* The calls that hold a scratch directory.
Holding(p) == {c \in Callers : p[c].pc \in {"copy", "extract", "locate", "sheets"}}

\* History: a call notes when it holds its scratch directory while the
\* other call holds one.
Noted(p) ==
  [c \in Callers |->
     [p[c] EXCEPT !.together = @ \/ (Holding(p) = Callers)]]

\* Line 52.
MakeTempOf(c) ==
  /\ proc[c].pc = "start"
  /\ \E d \in FreshNames(scratch) :
       /\ scratch' = [scratch EXCEPT ![d].exists = TRUE]
       /\ proc' = Noted([proc EXCEPT ![c].pc = "copy", ![c].temp_dir = d])
  /\ UNCHANGED << disk, notPair >>

\* Line 54.
CopyInputOf(c) ==
  /\ proc[c].pc = "copy"
  /\ IF disk[proc[c].input_file].kind = "missing"
       THEN /\ proc' = [proc EXCEPT ![c].pc = "except",
                                    ![c].e = "FileNotFoundError"]
            /\ scratch' = [scratch EXCEPT ![proc[c].temp_dir] = NoTree]
            /\ disk' = disk
       ELSE /\ proc' = [proc EXCEPT ![c].pc = "extract"]
            /\ scratch' = scratch
            /\ disk' = [disk EXCEPT ![proc[c].output_file] = disk[proc[c].input_file]]
  /\ UNCHANGED notPair

\* Lines 57-59.
ExtractOf(c) ==
  /\ proc[c].pc = "extract"
  /\ LET out == disk[proc[c].output_file]
     IN  IF out.kind # "zip"
           THEN /\ proc' = [proc EXCEPT ![c].pc = "except", ![c].e = "BadZipFile"]
                /\ scratch' = [scratch EXCEPT ![proc[c].temp_dir] = NoTree]
           ELSE IF ExtractRaises(out.members)
             THEN /\ proc' = [proc EXCEPT ![c].pc = "except",
                                          ![c].e = "FileExistsError"]
                  /\ scratch' = [scratch EXCEPT ![proc[c].temp_dir] = NoTree]
             ELSE /\ proc' = [proc EXCEPT ![c].pc = "locate"]
                  /\ scratch' = [scratch EXCEPT ![proc[c].temp_dir].files =
                                                  ExtractAll(out.members) @@ @]
  /\ UNCHANGED << disk, notPair >>

\* Lines 62-70.
LocateOf(c) ==
  /\ proc[c].pc = "locate"
  /\ LET files == scratch[proc[c].temp_dir].files
     IN  IF ~WorksheetsExists(files)
           THEN /\ proc' = [proc EXCEPT ![c].pc = "done", ![c].ret = Returned(0)]
                /\ scratch' = [scratch EXCEPT ![proc[c].temp_dir] = NoTree]
           ELSE IF IsFile(files, worksheets_dir)
             THEN /\ proc' = [proc EXCEPT ![c].pc = "except",
                                          ![c].e = "NotADirectoryError"]
                  /\ scratch' = [scratch EXCEPT ![proc[c].temp_dir] = NoTree]
             ELSE /\ proc' = [proc EXCEPT ![c].pc = "sheets",
                                          ![c].todo = SheetFiles(ListDir(files, worksheets_dir))]
                  /\ scratch' = scratch
  /\ UNCHANGED << disk, notPair >>

\* Lines 70-77; a worksheet that is no longer in the directory makes
\* ET.parse raise, which _update_sheet_prices answers with 0 (line 164).
RewriteSheetOf(c) ==
  /\ proc[c].pc = "sheets"
  /\ \E sheet_file \in proc[c].todo :
       LET sheet_path == worksheets_dir \o << sheet_file >>
           files == scratch[proc[c].temp_dir].files
       IN  IF sheet_path \in DOMAIN files
             THEN LET r == _update_sheet_prices(files[sheet_path], proc[c].markup,
                                                proc[c].price_column,
                                                proc[c].header_row)
                  IN  /\ scratch' = [scratch EXCEPT
                                       ![proc[c].temp_dir].files[sheet_path] = r.content]
                      /\ proc' = [proc EXCEPT
                                    ![c].total_updated = @ + r.count,
                                    ![c].todo = @ \ {sheet_file}]
             ELSE /\ scratch' = scratch
                  /\ proc' = [proc EXCEPT ![c].todo = @ \ {sheet_file}]
  /\ UNCHANGED << disk, notPair >>

\* Lines 80-88.
RepackAndReturnOf(c) ==
  /\ proc[c].pc = "sheets"
  /\ proc[c].todo = {}
  /\ disk' = [disk EXCEPT ![proc[c].output_file] =
                            Zip(Repack(scratch[proc[c].temp_dir].files))]
  /\ scratch' = [scratch EXCEPT ![proc[c].temp_dir] = NoTree]
  /\ proc' = [proc EXCEPT ![c].pc = "done",
                          ![c].ret = Returned(proc[c].total_updated)]
  /\ UNCHANGED notPair

\* Lines 90-94.
ExceptOf(c) ==
  /\ proc[c].pc = "except"
  /\ IF disk[proc[c].input_file].kind = "missing"
       THEN /\ proc' = [proc EXCEPT ![c].pc = "done", ![c].ret = Raised]
            /\ disk' = disk
       ELSE /\ proc' = [proc EXCEPT ![c].pc = "done", ![c].ret = Returned(0)]
            /\ disk' = [disk EXCEPT ![proc[c].output_file] = disk[proc[c].input_file]]
  /\ UNCHANGED << scratch, notPair >>

NextPair ==
  \E c \in Callers :
    \/ MakeTempOf(c)
    \/ CopyInputOf(c)
    \/ ExtractOf(c)
    \/ LocateOf(c)
    \/ RewriteSheetOf(c)
    \/ RepackAndReturnOf(c)
    \/ ExceptOf(c)

SpecPair == InitPair /\ [][NextPair]_vars

\* What a call does when it runs alone and meets no fault, computed from
\* its input file f and its arguments: how it ends and the output file it
\* leaves (old is the output file before the call).
RECURSIVE SumOfCounts(_, _, _)
SumOfCounts(names, files, a) ==
  IF names = {} THEN 0
  ELSE LET n == CHOOSE x \in names : TRUE
       IN  _update_sheet_prices(files[worksheets_dir \o << n >>], a.markup,
                                a.price_column, a.header_row).count
           + SumOfCounts(names \ {n}, files, a)

Alone(f, old, a) ==
  IF f.kind = "missing" THEN [ret |-> Raised, out |-> old]
  ELSE IF f.kind # "zip" \/ ExtractRaises(f.members)
    THEN [ret |-> Returned(0), out |-> f]
  ELSE LET files == ExtractAll(f.members)
           names == SheetFiles(ListDir(files, worksheets_dir))
           sheets == {worksheets_dir \o << n >> : n \in names}
           after == [q \in DOMAIN files |->
                       IF q \in sheets
                         THEN _update_sheet_prices(files[q], a.markup,
                                                   a.price_column, a.header_row).content
                         ELSE files[q]]
       IN  IF NoWorksheets(files) \/ IsFile(files, worksheets_dir)
             THEN [ret |-> Returned(0), out |-> f]
             ELSE [ret |-> Returned(SumOfCounts(names, files, a)),
                   out |-> Zip(Repack(after))]

\* C14 (isolation of concurrent rewrites): two calls with distinct output
\* paths that hold scratch directories at the same time hold distinct
\* ones, and each call ends as it would alone, with the same count and the
\* same output file.
C14_Isolation ==
  /\ \A c \in Callers, d \in Callers :
       (c # d /\ {c, d} \subseteq Holding(proc)) =>
         /\ proc[c].temp_dir # proc[d].temp_dir
         /\ scratch[proc[c].temp_dir].exists
  /\ \A c \in Callers :
       proc[c].pc = "done" =>
         LET alone == Alone(disk[proc[c].input_file], Missing, proc[c])
         IN  /\ proc[c].ret = alone.ret
             /\ disk[proc[c].output_file] = alone.out

\* Both calls have rewritten prices and returned, with different markups,
\* after they held their scratch directories at the same time.
C14_Witness ==
  /\ \A c \in Callers :
       /\ proc[c].pc = "done" /\ proc[c].together
       /\ proc[c].ret.k = "int" /\ proc[c].ret.n > 0
  /\ proc[1].markup # proc[2].markup
  /\ proc[1].input_file = proc[2].input_file
  /\ disk["out1"] # disk["out2"]

(***************************************************************************)
(* _column_number_to_letter on every column of up to three letters         *)
(***************************************************************************)

\* The letterings of one, two and three letters.
MaxColumn == 26 + 26 * 26 + 26 * 26 * 26

InitLetters ==
  /\ colnum \in 1..MaxColumn
  /\ colname = << >>
  /\ CoreIdle
  /\ PairIdle
  /\ BotIdle
  /\ ServicesIdle

\* Lines 168-176: the call.
Convert ==
  /\ colname = << >>
  /\ colname' = _column_number_to_letter(colnum)
  /\ UNCHANGED << colnum, notLetters >>

NextLetters == Convert

SpecLetters == InitLetters /\ [][NextLetters]_vars

\* The conventional reading of a lettering: base 26 with the digits A = 1
\* to Z = 26, most significant first.
LetterValue(ch) == CHOOSE i \in 1..26 : Letters[i] = ch

RECURSIVE letterToNumber(_)
letterToNumber(s) ==
  IF s = << >> THEN 0
  ELSE 26 * letterToNumber(SubSeq(s, 1, Len(s) - 1)) + LetterValue(s[Len(s)])

\* The spot values.
SpotValues ==
  (1 :> << "A" >>) @@ (26 :> << "Z" >>) @@ (27 :> << "A", "A" >>)
  @@ (52 :> << "A", "Z" >>) @@ (702 :> << "Z", "Z" >>)
  @@ (703 :> << "A", "A", "A" >>)

\* C15 (column-letter bijection): for every n from 1 to 18278 the letters
\* returned are one to three letters A-Z that read back as n, so distinct
\* n have distinct letters and the 18278 letterings of up to three letters
\* are all used; 1, 26, 27, 52, 702 and 703 give A, Z, AA, AZ, ZZ and AAA.
C15_ColumnLetterBijection ==
  colname # << >> =>
    /\ Len(colname) \in 1..3
    /\ \A i \in 1..Len(colname) : \E j \in 1..26 : colname[i] = Letters[j]
    /\ letterToNumber(colname) = colnum
    /\ colnum \in DOMAIN SpotValues => colname = SpotValues[colnum]

\* The last column of three letters has been converted.
C15_Witness ==
  /\ colnum = MaxColumn
  /\ colname = << "Z", "Z", "Z" >>

(***************************************************************************)
(* The bot's files                                                         *)
(***************************************************************************)

\* The folder the bot downloads to, and config.py's output_subdir.
folder == << "dl" >>
output_subdir == "processed_files"

\* os.path.splitext and the tests of process_directory (line 135) on the
\* names the model uses.
Names == {"a.xlsx", "B.XLSX", "~a.xlsx", "notes.txt", "d.xlsx"}

Stem(name) ==
  CASE name = "a.xlsx" -> "a" [] name = "B.XLSX" -> "B"
    [] name = "~a.xlsx" -> "~a" [] name = "notes.txt" -> "notes"
    [] name = "d.xlsx" -> "d"

Ext(name) ==
  CASE name \in {"a.xlsx", "~a.xlsx", "d.xlsx"} -> ".xlsx"
    [] name = "B.XLSX" -> ".XLSX"
    [] name = "notes.txt" -> ".txt"

LowerEndsWithXlsx(name) == Ext(name) \in {".xlsx", ".XLSX"}
StartsWithTilde(name) == name = "~a.xlsx"

\* os.path.exists, open(), shutil.copy2, os.remove on the store.
Exists(st, path) == path \in DOMAIN st.files \/ path \in st.dirs
FileAt(st, path) == IF path \in DOMAIN st.files THEN st.files[path] ELSE Missing
WriteFile(st, path, f) == [st EXCEPT !.files = (path :> f) @@ st.files]
RemoveFile(st, path) ==
  [st EXCEPT !.files = [q \in DOMAIN st.files \ {path} |-> st.files[q]]]

\* The names directly in a directory.
NamesIn(st, dir) ==
  {q[Len(dir) + 1] : q \in {r \in DOMAIN st.files \cup st.dirs :
                              Len(r) = Len(dir) + 1 /\ IsPrefix(dir, r)}}

\* ProcessorFactory.create_processor and the configurations of config.py:
\* the class of each file type and the arguments it passes to the core.
ProcessorKinds == {"default", "xtreme_case", "cifrovoy_ray"}
IsMultiSheet(kind) == kind = "cifrovoy_ray"
Args(kind) ==
  [markup |-> IF kind = "xtreme_case" THEN 200 ELSE 50,
   price_column |-> price_col_index,
   header_row |-> header_row]

\* A core that raises where update_prices_in_xlsx falls back.
update_prices_in_xlsx_strict(st, input_file, output_file, a) ==
  IF input_file \notin DOMAIN st.files \/ st.files[input_file].kind # "zip"
    THEN [st |-> st, ret |-> Raised]
    ELSE LET r == Alone(st.files[input_file], FileAt(st, output_file), a)
         IN  [st |-> WriteFile(st, output_file, r.out), ret |-> r.ret]

\* update_prices_in_xlsx as one step of its caller, without faults of the
\* disk: shutil.copy2 raises, in the call and in its except clause, when
\* the input is no file; otherwise the call ends as Alone computes.
update_prices_in_xlsx(st, input_file, output_file, a) ==
  IF input_file \notin DOMAIN st.files
    THEN [st |-> st, ret |-> Raised]
    ELSE LET r == Alone(st.files[input_file], FileAt(st, output_file), a)
         IN  [st |-> IF r.ret = Raised THEN st ELSE WriteFile(st, output_file, r.out),
              ret |-> r.ret]

(***************************************************************************)
(* openpyxl: load_workbook, Workbook.remove, Workbook.save                 *)
(***************************************************************************)

\* The worksheets of a workbook, in the workbook's order, and their parts.
SheetPart(sheet_name) == IF sheet_name = "Sheet1" THEN P_sheet1 ELSE P_sheet2
HasSheet(f, sheet_name) == SheetPart(sheet_name) \in DOMAIN f.members
SheetNames(f) ==
  (IF HasSheet(f, "Sheet1") THEN << "Sheet1" >> ELSE << >>)
  \o (IF HasSheet(f, "Sheet2") THEN << "Sheet2" >> ELSE << >>)

\* The reader takes the text of a number cell with int() or, when it has a
\* point or an exponent, with float(); ValueError on any other text.
CastRaises(cell) ==
  cell.t \in {"none", "n"} /\ cell.v.k \in {"word", "inf", "Infinity", "nan"}

\* load_workbook raises on a file that is no archive and on a worksheet it
\* cannot read.
LoadRaises(st, path) ==
  \/ path \notin DOMAIN st.files
  \/ st.files[path].kind # "zip"
  \/ \E q \in DOMAIN st.files[path].members \cap {P_sheet1, P_sheet2} :
       LET doc == st.files[path].members[q]
       IN  \/ doc.kind # "sheet"
           \/ \E i \in 1..Len(doc.rows) :
                \/ doc.rows[i].r.k = "bad"
                \/ \E j \in 1..Len(doc.rows[i].cells) : CastRaises(doc.rows[i].cells[j])

\* The writer: a number cell is written with the tag n and the number's
\* digits, an infinite float as inf; any other cell keeps tag and text.
WriteCell(cell) ==
  IF cell.t \in {"none", "n"} /\ cell.v.k \in {"int", "dec", "1e999"}
    THEN [cell EXCEPT !.t = "n",
                      !.v = IF cell.v.k = "1e999" THEN Txt("inf", 0)
                                                  ELSE Txt("int", cell.v.n)]
    ELSE cell

WriteSheet(doc) ==
  [doc EXCEPT !.ser = "openpyxl",
              !.rows = [i \in 1..Len(doc.rows) |->
                          [doc.rows[i] EXCEPT !.cells =
                             [j \in 1..Len(doc.rows[i].cells) |->
                                WriteCell(doc.rows[i].cells[j])]]]]

\* Lines 67-78 of processors.py: the workbook saved with the one worksheet
\* left in it, which the writer names sheet1.xml.
SingleSheetCopy(f, sheet_name) ==
  Zip((P_types :> Xml("types")) @@ (P_workbook :> Xml("workbook"))
      @@ (P_sheet1 :> WriteSheet(f.members[SheetPart(sheet_name)])))

(***************************************************************************)
(* BasePriceProcessor.process_file and the processors                      *)
(***************************************************************************)

NoCounts == [q \in {} |-> 0]

IdleFrame ==
  [pc |-> "idle", kind |-> "default", input_file |-> << >>, output_file |-> << >>,
   sheets |-> << >>, counts |-> NoCounts, e |-> "none", ret |-> "none"]

\* The call processor.process_file(input_file) of a processor of the kind.
StartFrame(kind, input_file) ==
  [IdleFrame EXCEPT !.pc = "check", !.kind = kind, !.input_file = input_file]

\* Lines 57-58 of base_processor.py.
OutputDir(input_file) == SubSeq(input_file, 1, Len(input_file) - 1) \o << output_subdir >>

\* Lines 62-65.
DefaultOutputFile(input_file) ==
  LET base == input_file[Len(input_file)]
  IN  OutputDir(input_file) \o << Stem(base) \o "_Update" \o Ext(base) >>

\* A process_file that makes the output directory before it looks for the
\* input.
CheckInput_makedirs_first ==
  /\ pf.pc = "check"
  /\ store' = [store EXCEPT !.dirs = @ \cup {OutputDir(pf.input_file)}]
  /\ IF ~Exists(store, pf.input_file)
       THEN pf' = [pf EXCEPT !.pc = "done", !.ret = "raised",
                             !.e = "FileNotFoundError"]
       ELSE pf' = [pf EXCEPT !.pc = "prepare"]
  /\ UNCHANGED << pd, hd, notBot >>

\* Lines 49-51: FileNotFoundError for an input that does not exist.
CheckInput ==
  /\ pf.pc = "check"
  /\ IF ~Exists(store, pf.input_file)
       THEN pf' = [pf EXCEPT !.pc = "done", !.ret = "raised",
                             !.e = "FileNotFoundError"]
       ELSE pf' = [pf EXCEPT !.pc = "prepare"]
  /\ UNCHANGED << store, pd, hd, notBot >>

\* Lines 57-65: the output directory is made and the output path is named.
MakeOutputDir ==
  /\ pf.pc = "prepare"
  /\ store' = [store EXCEPT !.dirs = @ \cup {OutputDir(pf.input_file)}]
  /\ pf' = [pf EXCEPT !.pc = "workbook",
                      !.output_file = DefaultOutputFile(pf.input_file)]
  /\ UNCHANGED << pd, hd, notBot >>

\* StandardPriceProcessor._process_workbook (processors.py, lines 23-38);
\* an exception is logged and raised again (base_processor.py, 73-75).
StandardProcessWorkbook ==
  /\ pf.pc = "workbook"
  /\ ~IsMultiSheet(pf.kind)
  /\ LET r == update_prices_in_xlsx(store, pf.input_file, pf.output_file, Args(pf.kind))
     IN  /\ store' = r.st
         /\ IF r.ret = Raised
              THEN pf' = [pf EXCEPT !.pc = "done", !.ret = "raised", !.e = "OSError"]
              ELSE pf' = [pf EXCEPT !.pc = "return",
                                    !.counts = ("workbook" :> r.ret.n)]
  /\ UNCHANGED << pd, hd, notBot >>

\* MultiSheetPriceProcessor._process_workbook, line 54.
LoadWorkbook ==
  /\ pf.pc = "workbook"
  /\ IsMultiSheet(pf.kind)
  /\ IF LoadRaises(store, pf.input_file)
       THEN pf' = [pf EXCEPT !.pc = "done", !.ret = "raised", !.e = "InvalidFile"]
       ELSE pf' = [pf EXCEPT !.pc = "sheets",
                             !.sheets = SheetNames(store.files[pf.input_file])]
  /\ UNCHANGED << store, pd, hd, notBot >>

\* One round of the loop of lines 57-95: the copy, the workbook saved with
\* this worksheet alone, the core's call into <sheet>.xlsx.tmp, the move.
ProcessSheet ==
  /\ pf.pc = "sheets"
  /\ pf.sheets # << >>
  /\ LET sheet_name == Head(pf.sheets)
         output_dir == SubSeq(pf.output_file, 1, Len(pf.output_file) - 1)
         sheet_output_file == output_dir \o << sheet_name \o ".xlsx" >>
         temp_output == output_dir \o << sheet_name \o ".xlsx.tmp" >>
         copied == WriteFile(store, sheet_output_file, store.files[pf.input_file])
         saved == WriteFile(copied, sheet_output_file,
                            SingleSheetCopy(copied.files[sheet_output_file], sheet_name))
         r == update_prices_in_xlsx(saved, sheet_output_file, temp_output, Args(pf.kind))
     IN  /\ store' = RemoveFile(WriteFile(r.st, sheet_output_file,
                                          r.st.files[temp_output]),
                                temp_output)
         /\ pf' = [pf EXCEPT !.sheets = Tail(@),
                             !.counts = (sheet_name :> r.ret.n) @@ @]
  /\ UNCHANGED << pd, hd, notBot >>

\* Line 71 of base_processor.py, reached when _process_workbook is done.
ReturnOutputFile ==
  /\ \/ pf.pc = "return"
     \/ pf.pc = "sheets" /\ pf.sheets = << >>
  /\ pf' = [pf EXCEPT !.pc = "done", !.ret = "returned"]
  /\ UNCHANGED << store, pd, hd, notBot >>

(***************************************************************************)
(* BasePriceProcessor.process_directory                                    *)
(***************************************************************************)

IdleDirectory ==
  [pc |-> "idle", kind |-> "default", folder_path |-> << >>, listing |-> {},
   file_name |-> "", processed_files |-> << >>, failed |-> {}]

\* Line 138: the names process_directory takes for price lists.
IsPriceFile(file_name) ==
  LowerEndsWithXlsx(file_name) /\ ~StartsWithTilde(file_name)

\* Lines 130-137: no folder, no files; otherwise the loop starts on the
\* listing, which os.listdir gives in no promised order.
ListFolder ==
  /\ pd.pc = "start"
  /\ IF ~Exists(store, pd.folder_path)
       THEN pd' = [pd EXCEPT !.pc = "done"]
       ELSE pd' = [pd EXCEPT !.pc = "loop", !.listing = NamesIn(store, pd.folder_path)]
  /\ UNCHANGED << store, pf, hd, notBot >>

\* Lines 137-141: the next name; a price list is handed to process_file.
TakeFile ==
  /\ pd.pc = "loop"
  /\ \E file_name \in pd.listing :
       IF IsPriceFile(file_name)
         THEN /\ pd' = [pd EXCEPT !.pc = "call", !.file_name = file_name,
                                  !.listing = @ \ {file_name}]
              /\ pf' = StartFrame(pd.kind, pd.folder_path \o << file_name >>)
         ELSE /\ pd' = [pd EXCEPT !.listing = @ \ {file_name}]
              /\ pf' = pf
  /\ UNCHANGED << store, hd, notBot >>

\* A loop without the try of line 140: the exception ends the call.
CollectResult_abort ==
  /\ pd.pc = "call"
  /\ pf.pc = "done"
  /\ IF pf.ret = "returned"
       THEN pd' = [pd EXCEPT !.pc = "loop",
                             !.processed_files = Append(@, pf.output_file)]
       ELSE pd' = [pd EXCEPT !.pc = "done", !.listing = {},
                             !.failed = @ \cup {pd.file_name}]
  /\ pf' = IdleFrame
  /\ UNCHANGED << store, hd, notBot >>

\* Lines 141-144: the path returned is appended; an exception is logged.
CollectResult ==
  /\ pd.pc = "call"
  /\ pf.pc = "done"
  /\ IF pf.ret = "returned"
       THEN pd' = [pd EXCEPT !.pc = "loop",
                             !.processed_files = Append(@, pf.output_file)]
       ELSE pd' = [pd EXCEPT !.pc = "loop", !.failed = @ \cup {pd.file_name}]
  /\ pf' = IdleFrame
  /\ UNCHANGED << store, hd, notBot >>

\* Lines 146-147.
ReturnProcessed ==
  /\ pd.pc = "loop"
  /\ pd.listing = {}
  /\ pd' = [pd EXCEPT !.pc = "done"]
  /\ UNCHANGED << store, pf, hd, notBot >>

(***************************************************************************)
(* UnifiedBot._handle_xtreme_case_file                                     *)
(***************************************************************************)

IdleHandler ==
  [pc |-> "idle", file_path |-> << >>, downloaded |-> Missing,
   processed_file |-> << >>, sent |-> << >>,
   telegram_files_processed |-> 0, errors |-> 0, e |-> "none"]

\* Lines 150-157: the XtremeCase processor is made and process_file called.
HandleFile ==
  /\ hd.pc = "start"
  /\ hd' = [hd EXCEPT !.pc = "process"]
  /\ pf' = StartFrame("xtreme_case", hd.file_path)
  /\ UNCHANGED << store, pd, notBot >>

\* Line 157 returns, or raises into the except clause of lines 171-173.
AfterProcessFile ==
  /\ hd.pc = "process"
  /\ pf.pc = "done"
  /\ IF pf.ret = "returned"
       THEN hd' = [hd EXCEPT !.pc = "send", !.processed_file = pf.output_file]
       ELSE hd' = [hd EXCEPT !.pc = "done", !.errors = @ + 1, !.e = pf.e]
  /\ pf' = IdleFrame
  /\ UNCHANGED << store, pd, notBot >>

\* Line 160, _send_to_target_channel (lines 238-264): open() raises on a
\* path without a file; otherwise the document goes to the channel.
SendToTargetChannel ==
  /\ hd.pc = "send"
  /\ IF hd.processed_file \in DOMAIN store.files
       THEN hd' = [hd EXCEPT !.pc = "sent",
                             !.sent = Append(@, store.files[hd.processed_file])]
       ELSE hd' = [hd EXCEPT !.pc = "done", !.errors = @ + 1,
                             !.e = "FileNotFoundError"]
  /\ UNCHANGED << store, pf, pd, notBot >>

\* Lines 259-261: send_document raises TelegramError.
SendFails ==
  /\ hd.pc = "send"
  /\ hd' = [hd EXCEPT !.pc = "done", !.errors = @ + 1, !.e = "TelegramError"]
  /\ UNCHANGED << store, pf, pd, notBot >>

\* Lines 163-166: the file is counted, then both files are removed.
CountAndCleanup ==
  /\ hd.pc = "sent"
  /\ hd' = [hd EXCEPT !.pc = "done", !.telegram_files_processed = @ + 1]
  /\ store' = RemoveFile(RemoveFile(store, hd.file_path), hd.processed_file)
  /\ UNCHANGED << pf, pd, notBot >>

(***************************************************************************)
(* The bot's calls                                                         *)
(***************************************************************************)

\* Worksheets: two prices; a text cell in the price column; one price; a
\* number too large for a float; a price in the header row; no rows.
BotDocs ==
  { Sheet(<< Row(RInt(6), << Cell(ColD, 6, "none", Txt("int", 100)) >>),
             Row(RInt(8), << Cell(ColD, 8, "n", Txt("int", 250)) >>) >>),
    Sheet(<< Row(RInt(6), << Cell(ColC, 6, "none", Txt("int", 100)),
                             Cell(ColD, 6, "s", Txt("int", 3)) >>) >>),
    Sheet(<< Row(RInt(7), << Cell(ColD, 7, "none", Txt("dec", 100)) >>) >>),
    Sheet(<< Row(RInt(6), << Cell(ColD, 6, "none", Txt("1e999", 0)) >>) >>),
    Sheet(<< Row(RInt(5), << Cell(ColD, 5, "none", Txt("int", 100)) >>) >>),
    Sheet(<< >>) }

Workbook1(d) == Zip(BaseMembers @@ (P_sheet1 :> d))
Workbook2(d1, d2) == Zip(BaseMembers @@ (P_sheet1 :> d1) @@ (P_sheet2 :> d2))

\* The files the bot is given: workbooks of one and two worksheets, the
\* workbook of the end-to-end scenario (its D7 is text in a number cell),
\* a workbook without worksheets, and a file that is no archive.
BotFiles ==
  {Workbook1(d) : d \in BotDocs}
  \cup {Workbook2(d[1], d[2]) : d \in BotDocs \X BotDocs}
  \cup { Workbook1(ScenarioSheet),
         Zip((P_types :> Xml("types")) @@ (P_workbook :> Xml("workbook"))),
         Garbage("notzip") }

\* The folders process_directory is given: each name absent or a file.
DirFiles == {Workbook1(ScenarioSheet), Garbage("notzip")}

Folders ==
  { [files |-> (folder \o << "a.xlsx" >> :> fa) @@ fb @@ ft @@ fn, dirs |-> {folder} \cup dd] :
      fa \in DirFiles,
      fb \in {NoMembers} \cup {(folder \o << "B.XLSX" >> :> f) : f \in DirFiles},
      ft \in {NoMembers, (folder \o << "~a.xlsx" >> :> Workbook1(ScenarioSheet))},
      fn \in {NoMembers, (folder \o << "notes.txt" >> :> Garbage("text"))},
      dd \in {{}, {folder \o << "d.xlsx" >>}} }

\* A call of process_file on dl/a.xlsx, which may not exist, in a folder
\* that may have its output directory already.
InitFile ==
  \E kind \in ProcessorKinds, f \in BotFiles \cup {Missing},
     dd \in {{}, {folder \o << output_subdir >>}} :
    /\ store = [files |-> IF f = Missing THEN NoMembers
                                         ELSE (folder \o << "a.xlsx" >> :> f),
                dirs |-> {folder} \cup dd]
    /\ pf = StartFrame(kind, folder \o << "a.xlsx" >>)
    /\ pd = IdleDirectory
    /\ hd = IdleHandler

InitDirectory ==
  \E kind \in {"default", "cifrovoy_ray"},
     st \in Folders \cup {[files |-> NoMembers, dirs |-> {}]} :
    /\ store = st
    /\ pf = IdleFrame
    /\ pd = [IdleDirectory EXCEPT !.pc = "start", !.kind = kind,
                                  !.folder_path = folder]
    /\ hd = IdleHandler

\* The handler is called with a file the reader has downloaded.
InitHandler ==
  \E f \in BotFiles :
    /\ store = [files |-> (folder \o << "a.xlsx" >> :> f), dirs |-> {folder}]
    /\ pf = IdleFrame
    /\ pd = IdleDirectory
    /\ hd = [IdleHandler EXCEPT !.pc = "start",
                                !.file_path = folder \o << "a.xlsx" >>,
                                !.downloaded = f]

InitBot ==
  /\ InitFile \/ InitDirectory \/ InitHandler
  /\ CoreIdle
  /\ PairIdle
  /\ LettersIdle
  /\ ServicesIdle

NextBot ==
  \/ CheckInput
  \/ MakeOutputDir
  \/ StandardProcessWorkbook
  \/ LoadWorkbook
  \/ ProcessSheet
  \/ ReturnOutputFile
  \/ ListFolder
  \/ TakeFile
  \/ CollectResult
  \/ ReturnProcessed
  \/ HandleFile
  \/ AfterProcessFile
  \/ SendToTargetChannel
  \/ SendFails
  \/ CountAndCleanup

SpecBot == InitBot /\ [][NextBot]_vars

(***************************************************************************)
(* The claims on the processors                                            *)
(***************************************************************************)

\* A call of process_file by itself has ended.
FileCallEnded == pf.pc = "done" /\ pd.pc = "idle" /\ hd.pc = "idle"

\* Eligibility as spec.md, section 3, states it, for the arguments a:
\* (a) type tag, (b) column, (c) row below the header, (d) a finite number.
EligibleFor(cell, row, a) ==
  /\ cell.t \in {"none", "n"}
  /\ row.r.k = "int"
  /\ cell.col = << Letters[a.price_column] >> /\ cell.row = row.r.n
  /\ row.r.n > a.header_row
  /\ IsFinite(cell)

EligibleCells(doc, a) ==
  Cardinality({pos \in Positions(doc) : EligibleFor(CellAt(doc, pos), RowAt(doc, pos), a)})

\* What the core makes of the single-sheet copy of a worksheet, whatever
\* else the workbook holds.
OfSheetAlone(doc, a) ==
  Alone(SingleSheetCopy(Workbook1(doc), "Sheet1"), Missing, a)

SheetFile(sheet_name) == folder \o << output_subdir, sheet_name \o ".xlsx" >>

RECURSIVE SumOver(_, _)
SumOver(counts, names) ==
  IF names = {} THEN 0
  ELSE LET n == CHOOSE x \in names : TRUE
       IN  counts[n] + SumOver(counts, names \ {n})

\* C16 (multi-sheet independence): when the multi-sheet processor has
\* processed a workbook, the file and the count of each worksheet are what
\* that worksheet's cells alone determine, whatever the other worksheets
\* hold, and the counts add up to the number of eligible cells of all
\* worksheets.
C16_MultiSheetIndependence ==
  (FileCallEnded /\ IsMultiSheet(pf.kind) /\ pf.ret = "returned") =>
    LET wb == store.files[pf.input_file]
        names == {SheetNames(wb)[i] : i \in 1..Len(SheetNames(wb))}
        a == Args(pf.kind)
    IN  /\ DOMAIN pf.counts = names
        /\ \A n \in names :
             LET alone == OfSheetAlone(wb.members[SheetPart(n)], a)
             IN  /\ store.files[SheetFile(n)] = alone.out
                 /\ pf.counts[n] = alone.ret.n
        /\ SumOver(pf.counts, names)
             = SumOver([n \in names |-> EligibleCells(wb.members[SheetPart(n)], a)], names)

\* The core falls back on the file: the copy succeeds and a later step
\* raises (no archive, an archive that does not fit a directory tree, a
\* file in the place of xl/worksheets).
CoreFallsBack(f) ==
  /\ f.kind # "missing"
  /\ \/ f.kind # "zip"
     \/ ExtractRaises(f.members)
     \/ IsFile(ExtractAll(f.members), worksheets_dir)

\* C17 (degraded rewrites are still forwarded): when the handler has ended
\* on a downloaded file on which the core falls back, and Telegram took
\* the document, the one document sent is byte for byte the downloaded
\* file, and the file is counted as processed and not as an error.
C17_FallbackIsForwarded ==
  (hd.pc = "done" /\ CoreFallsBack(hd.downloaded) /\ hd.e # "TelegramError") =>
    /\ hd.sent = << hd.downloaded >>
    /\ hd.telegram_files_processed = 1
    /\ hd.errors = 0

\* The handler has forwarded a file that is no archive.
C17_Witness ==
  /\ hd.pc = "done"
  /\ hd.downloaded = Garbage("notzip")
  /\ hd.sent = << Garbage("notzip") >>
  /\ hd.telegram_files_processed = 1

\* C18 (the path returned is a file): whenever process_file returns
\* normally, for a processor of any class, a file exists at the path it
\* returns.
C18_ReturnedPathIsAFile ==
  (pf.pc = "done" /\ pf.ret = "returned") =>
    pf.output_file \in DOMAIN store.files

\* C19 (no input, no effect): process_file on a path that does not exist
\* raises FileNotFoundError and changes nothing in the files: no output
\* directory is made and no output file written.
C19_MissingInputRaises ==
  [][ (pf.pc = "check" /\ ~Exists(store, pf.input_file)) =>
        /\ pf'.pc = "done"
        /\ pf'.ret = "raised"
        /\ pf'.e = "FileNotFoundError"
        /\ store' = store ]_vars

\* process_file has raised FileNotFoundError in a folder that has no
\* output directory.
C19_Witness ==
  /\ FileCallEnded
  /\ pf.ret = "raised" /\ pf.e = "FileNotFoundError"
  /\ store.files = NoMembers
  /\ store.dirs = {folder}

\* The names of the folder that are .xlsx names, in either case, and do
\* not start with '~'.
PriceLists == {"a.xlsx", "B.XLSX", "d.xlsx"} \cap NamesIn(store, folder)

\* process_file returns normally on the path: the standard processor on
\* every file, the multi-sheet processor on every workbook openpyxl reads.
ReturnsNormally(kind, path) ==
  IF IsMultiSheet(kind) THEN ~LoadRaises(store, path)
                        ELSE path \in DOMAIN store.files

\* C20 (process_directory isolates failures): when process_directory has
\* returned, every price list of the folder was handed to process_file,
\* the ones whose call raised were logged, and the list returned holds the
\* output paths of the ones whose call returned normally, once each.
C20_DirectoryIsolatesFailures ==
  pd.pc = "done" =>
    LET good == {n \in PriceLists : ReturnsNormally(pd.kind, folder \o << n >>)}
        listed == {pd.processed_files[i] : i \in 1..Len(pd.processed_files)}
    IN  /\ listed = {DefaultOutputFile(folder \o << n >>) : n \in good}
        /\ Len(pd.processed_files) = Cardinality(good)
        /\ pd.failed = PriceLists \ good

\* A folder with two price lists that were processed, one that raised,
\* and a name that starts with '~'.
C20_Witness ==
  /\ pd.pc = "done"
  /\ pd.failed = {"d.xlsx"}
  /\ Len(pd.processed_files) = 2
  /\ "~a.xlsx" \in NamesIn(store, folder)

(***************************************************************************)
(* ChannelMonitorBot.handle_document                                       *)
(***************************************************************************)

\* How many updates the bot is given.
MaxUpdates == 2

\* bot_config.source_channel_id with its "@" removed (line 99).
source_id == "source_channel"

\* The chats the bot is a member of: str(update.effective_chat.id).
Chats == {source_id, "other_group", "private_chat"}

\* The names of the documents posted.
DocumentNames == {"a.xlsx", "b.xls", "C.XLSX", "notes.txt"}

\* Line 107: document.file_name.lower().endswith(('.xlsx', '.xls')).
IsExcelName(file_name) == file_name \in {"a.xlsx", "b.xls", "C.XLSX"}

\* No update is in the handler.
NoUpdate == [chat |-> "none", file_name |-> "none"]

InitChannel ==
  /\ upd = NoUpdate
  /\ cm = [pc |-> "idle", updates |-> 0, processed_files |-> 0, errors |-> 0,
           downloaded |-> {}, processed |-> {}, sent |-> {}, replies |-> {}]
  /\ CoreIdle
  /\ PairIdle
  /\ LettersIdle
  /\ BotIdle
  /\ MonIdle
  /\ UniIdle

\* Lines 195-197 of run(): the handler is registered for every document
\* message, filters.Document.ALL, whatever the chat.
ReceiveDocument ==
  /\ cm.pc = "idle"
  /\ cm.updates < MaxUpdates
  /\ \E chat \in Chats, file_name \in DocumentNames :
       upd' = [chat |-> chat, file_name |-> file_name]
  /\ cm' = [cm EXCEPT !.pc = "check", !.updates = @ + 1]
  /\ UNCHANGED notChan

\* Lines 98-109: chat_id and source_id are computed and logged, and are not
\* compared; only a name that is not an Excel name ends the call.
CheckExcel ==
  /\ cm.pc = "check"
  /\ LET chat_id == upd.chat
     IN  IF ~IsExcelName(upd.file_name)
           THEN /\ cm' = [cm EXCEPT !.pc = "idle"]
                /\ upd' = NoUpdate
           ELSE /\ cm' = [cm EXCEPT !.pc = "download"]
                /\ upd' = upd
  /\ UNCHANGED notChan

\* Lines 115-121: the document is written under temp_dir.
Download ==
  /\ cm.pc = "download"
  /\ cm' = [cm EXCEPT !.pc = "process", !.downloaded = @ \cup {upd}]
  /\ UNCHANGED << upd, notChan >>

\* get_file or download_to_drive raises.
DownloadFails ==
  /\ cm.pc = "download"
  /\ cm' = [cm EXCEPT !.pc = "except"]
  /\ UNCHANGED << upd, notChan >>

\* Lines 124-130: auto_create_processor and process_file return.
ProcessDocument ==
  /\ cm.pc = "process"
  /\ cm' = [cm EXCEPT !.pc = "send", !.processed = @ \cup {upd}]
  /\ UNCHANGED << upd, notChan >>

\* process_file raises.
ProcessFails ==
  /\ cm.pc = "process"
  /\ cm' = [cm EXCEPT !.pc = "except"]
  /\ UNCHANGED << upd, notChan >>

\* Lines 133-151: the processed file goes to the target channel and is
\* counted.
SendDocument ==
  /\ cm.pc = "send"
  /\ cm' = [cm EXCEPT !.pc = "reply", !.sent = @ \cup {upd},
                      !.processed_files = @ + 1]
  /\ UNCHANGED << upd, notChan >>

\* open() or send_document raises.
SendDocumentFails ==
  /\ cm.pc = "send"
  /\ cm' = [cm EXCEPT !.pc = "except"]
  /\ UNCHANGED << upd, notChan >>

\* Lines 154-166: the temporary files are removed and the chat of the
\* update is told of the success.
ReplySuccess ==
  /\ cm.pc = "reply"
  /\ cm' = [cm EXCEPT !.pc = "idle", !.replies = @ \cup {<< upd, "ok" >>}]
  /\ upd' = NoUpdate
  /\ UNCHANGED notChan

\* reply_text of line 164 raises, into the except clause.
ReplySuccessFails ==
  /\ cm.pc = "reply"
  /\ cm' = [cm EXCEPT !.pc = "except"]
  /\ UNCHANGED << upd, notChan >>

\* Lines 168-176: the error is counted and the chat of the update is told.
ReplyError ==
  /\ cm.pc = "except"
  /\ cm' = [cm EXCEPT !.pc = "idle", !.errors = @ + 1,
                      !.replies = @ \cup {<< upd, "error" >>}]
  /\ upd' = NoUpdate
  /\ UNCHANGED notChan

\* reply_text of line 174 raises out of the handler; error_handler (lines
\* 178-181) counts once more.
ReplyErrorFails ==
  /\ cm.pc = "except"
  /\ cm' = [cm EXCEPT !.pc = "idle", !.errors = @ + 2]
  /\ upd' = NoUpdate
  /\ UNCHANGED notChan

NextChannel ==
  \/ ReceiveDocument
  \/ CheckExcel
  \/ Download
  \/ DownloadFails
  \/ ProcessDocument
  \/ ProcessFails
  \/ SendDocument
  \/ SendDocumentFails
  \/ ReplySuccess
  \/ ReplySuccessFails
  \/ ReplyError
  \/ ReplyErrorFails

SpecChannel == InitChannel /\ [][NextChannel]_vars

\* C21: only documents of the source channel are processed: an Excel
\* document received from any other chat is never downloaded, never
\* processed and never sent to the target channel.
C21_OnlySourceChannel ==
  \A u \in cm.downloaded \cup cm.processed \cup cm.sent : u.chat = source_id

(***************************************************************************)
(* TelegramUserReader and GoogleSheetsReader: the monitoring loops         *)
(***************************************************************************)

\* How far the clock runs and how many messages the channel receives.
MaxTime == 2
MaxPosts == 2

\* get_messages(channel, limit=20) of check_new_messages, and the default
\* limit of process_recent_files.
check_limit == 20
recent_limit == 10

\* timedelta(days=1) of line 54, in ticks of the clock.
day == 1

Min(a, b) == IF a < b THEN a ELSE b
Range(s) == {s[i] : i \in 1..Len(s)}

\* client.get_messages: the last `limit` messages, the newest first. A
\* message is named by its place in the channel.
Newest(channel, limit) ==
  [k \in 1..Min(limit, Len(channel)) |-> Len(channel) - k + 1]

\* Line 122: message.date <= self.last_check_time.
IsOld(date, last_check_time) == date <= last_check_time

\* Lines 129-133: the message has a document with an Excel name.
IsExcelMessage(message) == message.excel

\* The reader after __init__ (lines 50-54) and before UnifiedPriceBot.start.
InitReader ==
  [pc |-> "boot", mode |-> "check", last_check_time |-> now - day,
   messages |-> << >>, handed |-> << >>, undelivered |-> {},
   failed |-> FALSE, interrupted |-> FALSE]

\* GoogleSheetsReader after __init__ (lines 44-51) and connect.
InitSheets(connected) ==
  [pc |-> "check", spreadsheet |-> connected, last_update_time |-> 0,
   failed |-> FALSE, interrupted |-> FALSE]

InitMonitor ==
  /\ now = 1
  /\ posts = << >>
  /\ tm = InitReader
  /\ \E connected \in BOOLEAN : gs = InitSheets(connected)
  /\ CoreIdle
  /\ PairIdle
  /\ LettersIdle
  /\ BotIdle
  /\ ChanIdle
  /\ UniIdle

\* The clock advances.
Tick ==
  /\ now < MaxTime
  /\ now' = now + 1
  /\ UNCHANGED << posts, tm, gs, notMon >>

\* A message is posted to the monitored channel; its date is the time of
\* posting. `live` records that start_monitoring was running.
Post ==
  /\ Len(posts) < MaxPosts
  /\ \E excel \in BOOLEAN :
       posts' = Append(posts, [date |-> now, excel |-> excel,
                               live |-> tm.mode = "check" /\ tm.pc # "boot"])
  /\ UNCHANGED << now, tm, gs, notMon >>

\* unified_bot.py, lines 312-326: process_recent_files is called first when
\* PROCESS_RECENT_ON_START is set; then start_monitoring.
StartReader ==
  /\ tm.pc = "boot"
  /\ \E process_recent \in BOOLEAN :
       tm' = [tm EXCEPT !.pc = "fetch",
                        !.mode = IF process_recent THEN "recent" ELSE "check"]
  /\ UNCHANGED << now, posts, gs, notMon >>

\* Lines 108-111 and line 222: the messages are fetched.
GetMessages ==
  /\ tm.pc = "fetch"
  /\ tm' = [tm EXCEPT !.pc = "loop", !.failed = FALSE,
                      !.messages = Newest(posts, IF tm.mode = "recent"
                                                   THEN recent_limit
                                                   ELSE check_limit)]
  /\ UNCHANGED << now, posts, gs, notMon >>

\* get_entity or get_messages raises: check_new_messages returns (lines
\* 101-103) or logs (lines 156-157), process_recent_files logs (lines
\* 246-247); last_check_time keeps its value.
GetMessagesFails ==
  /\ tm.pc = "fetch"
  /\ tm' = [tm EXCEPT !.pc = IF tm.mode = "recent" THEN "fetch" ELSE "sleep",
                      !.mode = "check", !.failed = TRUE]
  /\ UNCHANGED << now, posts, gs, notMon >>

\* Whether the loop body reaches the download of this message: lines
\* 122-133 of check_new_messages, lines 226-229 of process_recent_files.
IsTaken(id) ==
  /\ tm.mode = "check" => ~IsOld(posts[id].date, tm.last_check_time)
  /\ IsExcelMessage(posts[id])

\* One round of the loop (lines 118-146, 225-239): an old message and a
\* message without an Excel document are passed over, any other is
\* downloaded and handed to the file handler.
TakeMessage ==
  /\ tm.pc = "loop"
  /\ tm.messages # << >>
  /\ LET id == Head(tm.messages)
     IN  tm' = [tm EXCEPT !.messages = Tail(@),
                          !.handed = IF IsTaken(id) THEN Append(@, id) ELSE @]
  /\ UNCHANGED << now, posts, gs, notMon >>

\* _download_file returns None (lines 200-202): the handler is not called.
DownloadReturnsNone ==
  /\ tm.pc = "loop"
  /\ tm.messages # << >>
  /\ LET id == Head(tm.messages)
     IN  /\ IsTaken(id)
         /\ tm' = [tm EXCEPT !.messages = Tail(@), !.failed = TRUE,
                             !.undelivered = @ \cup {id}]
  /\ UNCHANGED << now, posts, gs, notMon >>

\* The file handler raises (lines 145-146, 238-239): logged, the loop goes
\* on.
FileHandlerRaises ==
  /\ tm.pc = "loop"
  /\ tm.messages # << >>
  /\ LET id == Head(tm.messages)
     IN  /\ IsTaken(id)
         /\ tm' = [tm EXCEPT !.messages = Tail(@), !.failed = TRUE,
                             !.handed = Append(@, id)]
  /\ UNCHANGED << now, posts, gs, notMon >>

\* A cycle that leaves last_check_time as it was.
FinishCycle_keep ==
  /\ tm.pc = "loop"
  /\ tm.messages = << >>
  /\ tm' = [tm EXCEPT !.pc = IF tm.mode = "recent" THEN "fetch" ELSE "sleep",
                      !.mode = "check"]
  /\ UNCHANGED << now, posts, gs, notMon >>

\* Line 149 and line 244: after the loop last_check_time is the time of
\* the clock. process_recent_files is followed by start_monitoring, a
\* check cycle by the sleep of line 261.
FinishCycle ==
  /\ tm.pc = "loop"
  /\ tm.messages = << >>
  /\ tm' = [tm EXCEPT !.pc = IF tm.mode = "recent" THEN "fetch" ELSE "sleep",
                      !.mode = "check", !.last_check_time = now]
  /\ UNCHANGED << now, posts, gs, notMon >>

\* A loop that gives up after a cycle that failed.
Sleep_break ==
  /\ tm.pc = "sleep"
  /\ tm' = [tm EXCEPT !.pc = IF tm.failed THEN "stopped" ELSE "fetch"]
  /\ UNCHANGED << now, posts, gs, notMon >>

\* Lines 258-261 and 265-267: the sleep ends and the loop starts the next
\* cycle.
Sleep ==
  /\ tm.pc = "sleep"
  /\ tm' = [tm EXCEPT !.pc = "fetch"]
  /\ UNCHANGED << now, posts, gs, notMon >>

\* Lines 262-264: KeyboardInterrupt ends the loop.
Interrupt ==
  /\ tm.pc \in {"fetch", "loop", "sleep"}
  /\ tm.mode = "check"
  /\ tm' = [tm EXCEPT !.pc = "stopped", !.interrupted = TRUE]
  /\ UNCHANGED << now, posts, gs, notMon >>

\* google_sheets_reader.py, lines 95-97: no spreadsheet, the cycle returns.
CheckNotConnected ==
  /\ gs.pc = "check"
  /\ ~gs.spreadsheet
  /\ gs' = [gs EXCEPT !.pc = "sleep", !.failed = FALSE]
  /\ UNCHANGED << now, posts, tm, notMon >>

\* Line 106: _export_to_excel returns the path of the file it wrote.
ExportToExcel ==
  /\ gs.pc = "check"
  /\ gs.spreadsheet
  /\ gs' = [gs EXCEPT !.pc = "handle", !.failed = FALSE]
  /\ UNCHANGED << now, posts, tm, notMon >>

\* Lines 173-175: _export_to_excel returns None; lines 108 and 116.
ExportReturnsNone ==
  /\ gs.pc = "check"
  /\ gs.spreadsheet
  /\ gs' = [gs EXCEPT !.pc = "sleep", !.failed = TRUE,
                      !.last_update_time = now]
  /\ UNCHANGED << now, posts, tm, notMon >>

\* Lines 108-116: the file handler returns.
HandleExport ==
  /\ gs.pc = "handle"
  /\ gs' = [gs EXCEPT !.pc = "sleep", !.last_update_time = now]
  /\ UNCHANGED << now, posts, tm, notMon >>

\* Lines 113-116: the file handler raises; logged.
HandleExportRaises ==
  /\ gs.pc = "handle"
  /\ gs' = [gs EXCEPT !.pc = "sleep", !.failed = TRUE,
                      !.last_update_time = now]
  /\ UNCHANGED << now, posts, tm, notMon >>

\* Lines 203-206 and 210-212: the sleep ends, the next cycle starts.
SleepSheets ==
  /\ gs.pc = "sleep"
  /\ gs' = [gs EXCEPT !.pc = "check"]
  /\ UNCHANGED << now, posts, tm, notMon >>

\* Lines 207-209: KeyboardInterrupt ends the loop.
InterruptSheets ==
  /\ gs.pc \in {"check", "handle", "sleep"}
  /\ gs' = [gs EXCEPT !.pc = "stopped", !.interrupted = TRUE]
  /\ UNCHANGED << now, posts, tm, notMon >>

NextMonitor ==
  \/ Tick
  \/ Post
  \/ StartReader
  \/ GetMessages
  \/ GetMessagesFails
  \/ TakeMessage
  \/ DownloadReturnsNone
  \/ FileHandlerRaises
  \/ FinishCycle
  \/ Sleep
  \/ Interrupt
  \/ CheckNotConnected
  \/ ExportToExcel
  \/ ExportReturnsNone
  \/ HandleExport
  \/ HandleExportRaises
  \/ SleepSheets
  \/ InterruptSheets

SpecMonitor == InitMonitor /\ [][NextMonitor]_vars

\* The steps of the two tasks that asyncio.gather runs (unified_bot.py, line
\* 339).
ReaderStep ==
  \/ GetMessages
  \/ GetMessagesFails
  \/ TakeMessage
  \/ DownloadReturnsNone
  \/ FileHandlerRaises
  \/ FinishCycle
  \/ Sleep

SheetsStep ==
  \/ CheckNotConnected
  \/ ExportToExcel
  \/ ExportReturnsNone
  \/ HandleExport
  \/ HandleExportRaises
  \/ SleepSheets

\* The event loop runs every task that is ready: a request that is awaited
\* returns or raises, and a sleep ends.
SpecMonitorFair == SpecMonitor /\ WF_vars(ReaderStep) /\ WF_vars(SheetsStep)

(***************************************************************************)
(* The claims on the monitoring loops                                      *)
(***************************************************************************)

\* How often the file handler was called for a message.
TimesHanded(id) == Cardinality({k \in 1..Len(tm.handed) : tm.handed[k] = id})

\* The reader is between two cycles.
BetweenCycles == tm.pc = "sleep"

\* A message no later cycle takes: the test of line 122 passes it over from
\* now on, since last_check_time is only ever set to the clock's time.
PassedOver(id) == IsOld(posts[id].date, tm.last_check_time)

\* C22: no message is lost: every Excel document message posted to the
\* channel while start_monitoring runs is handed to the file handler, also
\* one posted between get_messages and the assignment of last_check_time.
\* Stated on finite runs: between two cycles, a message posted during
\* monitoring that every later cycle passes over, and whose download did
\* not fail, has been handed to the file handler.
C22_NoMessageLost ==
  BetweenCycles =>
    \A id \in 1..Len(posts) :
      ( /\ posts[id].live
        /\ IsExcelMessage(posts[id])
        /\ PassedOver(id)
        /\ id \notin tm.undelivered )
      => TimesHanded(id) >= 1

\* C23: at most once: over any sequence of check cycles, with or without
\* process_recent_files before them, no message of the channel is handed
\* to the file handler more than once.
C23_AtMostOnce == \A id \in 1..Len(posts) : TimesHanded(id) <= 1

\* Within a cycle the newer message is handed first; here an older one was
\* handed before a newer one, so a later cycle, now finished, fetched both
\* and passed the older one over.
C23_Witness ==
  /\ BetweenCycles
  /\ \E k \in 1..Len(tm.handed), l \in 1..Len(tm.handed) :
       /\ k < l
       /\ tm.handed[k] < tm.handed[l]
       /\ PassedOver(tm.handed[k])

\* C27: monitoring never stops on a failed cycle: in both loops, after a
\* cycle that failed (a request, a download, an export or the file handler
\* raised) another cycle is started unless the user interrupts, and a loop
\* that has ended was ended by KeyboardInterrupt.
C27_MonitoringGoesOn ==
  /\ [](tm.pc = "stopped" => tm.interrupted)
  /\ [](gs.pc = "stopped" => gs.interrupted)
  /\ tm.failed ~> (tm.pc = "fetch" \/ tm.interrupted)
  /\ gs.failed ~> (gs.pc = "check" \/ gs.interrupted)

\* Both loops are about to start a cycle after one that failed: the
\* reader's file handler or download failed on a message posted during
\* monitoring, the export or its handler failed.
C27_Witness ==
  /\ tm.pc = "fetch" /\ tm.failed
  /\ \E id \in 1..Len(posts) :
       posts[id].live /\ (TimesHanded(id) = 1 \/ id \in tm.undelivered)
  /\ gs.pc = "check" /\ gs.failed

(***************************************************************************)
(* The claims on the handlers of UnifiedPriceBot                           *)
(***************************************************************************)

\* _handle_xtreme_case_file has returned.
HandlerEnded == hd.pc = "done"

\* C26: temporary files do not accumulate: after every completed call of
\* _handle_xtreme_case_file, whether it succeeded or failed, neither the
\* downloaded input file nor the processed output file remains on disk.
C26_NoTemporaryFilesRemain ==
  HandlerEnded =>
    /\ hd.file_path \notin DOMAIN store.files
    /\ DefaultOutputFile(hd.file_path) \notin DOMAIN store.files

(***************************************************************************)
(* UnifiedPriceBot: the two file handlers as interleaved tasks             *)
(***************************************************************************)

\* How often each handler is called.
MaxRuns == 2

\* The worksheets of the spreadsheet that _export_to_excel writes out.
SheetSets == {{"Sheet1"}, {"Sheet1", "Sheet2"}}

\* The file the reader downloaded for the n-th call of the XtremeCase
\* handler, and the file of the n-th export: both directly in temp_dir.
XtremeFile(n) == << "x" \o ToString(n) \o ".xlsx" >>
ExportFile(n) == << "CifrovoyRay_" \o ToString(n) \o ".xlsx" >>

\* base_processor.py, lines 57-65: <temp_dir>/processed_files and the
\* default output file in it.
processed_files == << output_subdir >>
XtremeOutput(n) == processed_files \o << "x" \o ToString(n) \o "_Update.xlsx" >>

\* processors.py, line 60: the file of one worksheet.
SheetOutput(sheet_name) == processed_files \o << sheet_name \o ".xlsx" >>

\* A file written by the call `run` of the handler `by`.
Made(by, run) == [by |-> by, run |-> run]

\* os.listdir(output_dir), line 205: every name here ends in ".xlsx".
ListOutputDir(disk_) == {p \in DOMAIN disk_ : Len(p) = 2 /\ p[1] = output_subdir}

\* Path.unlink and shutil.rmtree of _cleanup_files (lines 266-282).
Unlink(disk_, paths) == [p \in DOMAIN disk_ \ paths |-> disk_[p]]
RmTree(disk_) == Unlink(disk_, ListOutputDir(disk_))

NoFiles == [p \in {} |-> Made("none", 0)]

IdleTask ==
  [pc |-> "idle", run |-> 0, ended |-> 0, file_path |-> << >>,
   sending |-> << >>, opened |-> Made("none", 0), to_send |-> {},
   counted |-> FALSE, all_sent |-> FALSE]

InitUnified ==
  /\ udisk = NoFiles
  /\ xh = IdleTask
  /\ rh = IdleTask
  /\ stats = [telegram_files_processed |-> 0, sheets_files_processed |-> 0,
              errors |-> 0]
  /\ target = {}
  /\ CoreIdle
  /\ PairIdle
  /\ LettersIdle
  /\ BotIdle
  /\ ChanIdle
  /\ MonIdle

\* Lines 144-160 and 249-250, up to the first await: the downloaded file is
\* processed into processed_files/<stem>_Update.xlsx, which is opened for
\* send_document.
HandleXtremeCase ==
  /\ xh.pc = "idle"
  /\ xh.run < MaxRuns
  /\ LET n == xh.run + 1
     IN  /\ udisk' = (XtremeOutput(n) :> Made("xtreme_case", n))
                     @@ (XtremeFile(n) :> Made("download", n)) @@ udisk
         /\ xh' = [xh EXCEPT !.pc = "sending", !.run = n,
                             !.file_path = XtremeFile(n),
                             !.sending = XtremeOutput(n),
                             !.opened = Made("xtreme_case", n),
                             !.counted = FALSE, !.all_sent = FALSE]
  /\ UNCHANGED << rh, stats, target, notUni >>

\* Line 157 raises, lines 171-173.
XtremeProcessFails ==
  /\ xh.pc = "idle"
  /\ xh.run < MaxRuns
  /\ LET n == xh.run + 1
     IN  /\ udisk' = (XtremeFile(n) :> Made("download", n)) @@ udisk
         /\ xh' = [xh EXCEPT !.run = n, !.ended = @ + 1,
                             !.file_path = XtremeFile(n),
                             !.counted = FALSE, !.all_sent = FALSE]
  /\ stats' = [stats EXCEPT !.errors = @ + 1]
  /\ UNCHANGED << rh, target, notUni >>

\* Lines 250-257 and 163-166: send_document returns; the file is counted
\* and the two files are removed.
XtremeSent ==
  /\ xh.pc = "sending"
  /\ target' = target \cup {[sender |-> "XtremeCase", run |-> xh.run,
                               file |-> xh.opened]}
  /\ stats' = [stats EXCEPT !.telegram_files_processed = @ + 1]
  /\ udisk' = Unlink(udisk, {xh.file_path, xh.sending})
  /\ xh' = [xh EXCEPT !.pc = "idle", !.ended = @ + 1, !.counted = TRUE,
                      !.all_sent = TRUE]
  /\ UNCHANGED << rh, notUni >>

\* A handler that counts the file before it is sent.
XtremeSendFails_counted ==
  /\ xh.pc = "sending"
  /\ stats' = [stats EXCEPT !.telegram_files_processed = @ + 1,
                            !.errors = @ + 1]
  /\ xh' = [xh EXCEPT !.pc = "idle", !.ended = @ + 1, !.counted = TRUE]
  /\ UNCHANGED << udisk, rh, target, notUni >>

\* Lines 259-264 and 171-173: send_document raises.
XtremeSendFails ==
  /\ xh.pc = "sending"
  /\ stats' = [stats EXCEPT !.errors = @ + 1]
  /\ xh' = [xh EXCEPT !.pc = "idle", !.ended = @ + 1]
  /\ UNCHANGED << udisk, rh, target, notUni >>

\* google_sheets_reader.py, lines 106-111, and lines 183-208 and 249-250 of
\* the handler, up to the first await: the export is written, process_file
\* writes one file for each worksheet into processed_files, the directory
\* is listed, and the first file of the listing is opened.
HandleCifrovoyRay ==
  /\ rh.pc = "idle"
  /\ rh.run < MaxRuns
  /\ \E sheets \in SheetSets :
       LET n == rh.run + 1
           written == [p \in {SheetOutput(s) : s \in sheets} |->
                         Made("cifrovoy_ray", n)]
           after == written @@ (ExportFile(n) :> Made("export", n)) @@ udisk
       IN  /\ udisk' = after
           /\ \E file \in ListOutputDir(after) :
                rh' = [rh EXCEPT !.pc = "sending", !.run = n,
                                 !.file_path = ExportFile(n),
                                 !.sending = file, !.opened = after[file],
                                 !.to_send = ListOutputDir(after) \ {file},
                                 !.counted = FALSE, !.all_sent = FALSE]
  /\ UNCHANGED << xh, stats, target, notUni >>

\* Line 197 raises, lines 224-226.
CifrovoyRayProcessFails ==
  /\ rh.pc = "idle"
  /\ rh.run < MaxRuns
  /\ LET n == rh.run + 1
     IN  /\ udisk' = (ExportFile(n) :> Made("export", n)) @@ udisk
         /\ rh' = [rh EXCEPT !.run = n, !.ended = @ + 1,
                             !.file_path = ExportFile(n),
                             !.counted = FALSE, !.all_sent = FALSE]
  /\ stats' = [stats EXCEPT !.errors = @ + 1]
  /\ UNCHANGED << xh, target, notUni >>

\* send_document returns and the loop of lines 205-213 opens the next file
\* of the listing; open() raises when the file is gone.
CifrovoyRaySentNext ==
  /\ rh.pc = "sending"
  /\ rh.to_send # {}
  /\ target' = target \cup {[sender |-> "CifrovoyRay", run |-> rh.run,
                               file |-> rh.opened]}
  /\ \E file \in rh.to_send :
       IF file \in DOMAIN udisk
         THEN /\ rh' = [rh EXCEPT !.sending = file, !.opened = udisk[file],
                                  !.to_send = @ \ {file}]
              /\ stats' = stats
         ELSE /\ rh' = [rh EXCEPT !.pc = "idle", !.ended = @ + 1]
              /\ stats' = [stats EXCEPT !.errors = @ + 1]
  /\ UNCHANGED << udisk, xh, notUni >>

\* send_document returns for the last file of the listing; lines 216-219:
\* the export is counted, its file removed and processed_files removed with
\* all that is in it.
CifrovoyRaySentLast ==
  /\ rh.pc = "sending"
  /\ rh.to_send = {}
  /\ target' = target \cup {[sender |-> "CifrovoyRay", run |-> rh.run,
                               file |-> rh.opened]}
  /\ stats' = [stats EXCEPT !.sheets_files_processed = @ + 1]
  /\ udisk' = RmTree(Unlink(udisk, {rh.file_path}))
  /\ rh' = [rh EXCEPT !.pc = "idle", !.ended = @ + 1, !.counted = TRUE,
                      !.all_sent = TRUE]
  /\ UNCHANGED << xh, notUni >>

\* Lines 259-264 and 224-226: send_document raises.
CifrovoyRaySendFails ==
  /\ rh.pc = "sending"
  /\ stats' = [stats EXCEPT !.errors = @ + 1]
  /\ rh' = [rh EXCEPT !.pc = "idle", !.ended = @ + 1]
  /\ UNCHANGED << udisk, xh, target, notUni >>

NextUnified ==
  \/ HandleXtremeCase
  \/ XtremeProcessFails
  \/ XtremeSent
  \/ XtremeSendFails
  \/ HandleCifrovoyRay
  \/ CifrovoyRayProcessFails
  \/ CifrovoyRaySentNext
  \/ CifrovoyRaySentLast
  \/ CifrovoyRaySendFails

SpecUnified == InitUnified /\ [][NextUnified]_vars

\* The XtremeCase handler is waiting for send_document with its processed
\* file still on disk.
XtremeInFlight == xh.pc = "sending" /\ xh.sending \in DOMAIN udisk

\* C24: handler isolation on the shared output directory: every file the
\* CifrovoyRay handler sends was produced by process_file of that same
\* call (no XtremeCase output, no leftover of an earlier run), and its
\* cleanup never removes a processed file that the XtremeCase handler has
\* produced and not yet sent.
C24_HandlerIsolation ==
  [][ /\ \A d \in target' :
           d.sender = "CifrovoyRay" => d.file = Made("cifrovoy_ray", d.run)
      /\ (XtremeInFlight /\ rh' # rh) => xh.sending \in DOMAIN udisk' ]_vars

\* C25: statistics: every completed call of a handler adds one to exactly
\* one counter, so the three counters sum to the number of completed calls,
\* and a call is counted as processed only after every send of it
\* succeeded.
C25_Statistics ==
  /\ stats.telegram_files_processed + stats.sheets_files_processed + stats.errors
       = xh.ended + rh.ended
  /\ stats.telegram_files_processed <= xh.ended
  /\ stats.sheets_files_processed <= rh.ended
  /\ xh.counted => xh.all_sent
  /\ rh.counted => rh.all_sent

\* Both handlers have completed calls of each kind: counted ones and
\* failed ones.
C25_Witness ==
  /\ xh.pc = "idle" /\ rh.pc = "idle"
  /\ stats.telegram_files_processed >= 1
  /\ stats.sheets_files_processed >= 1
  /\ stats.errors >= 2
  /\ xh.ended = MaxRuns /\ rh.ended = MaxRuns

(***************************************************************************)
(* The order of the worksheet files                                        *)
(***************************************************************************)

\* The extracted input, before the loop has touched it.
Extracted == ExtractAll(InputFile.members)

\* The names the loop was given, and those it has taken so far.
Listed == SheetFiles(ListDir(Extracted, worksheets_dir))
Visited == Listed \ todo

\* What _update_sheet_prices makes of one worksheet file of the input.
OfItsOwnFile(sheet_file) ==
  _update_sheet_prices(Extracted[worksheets_dir \o << sheet_file >>],
                       req.markup, req.price_column, req.header_row)

\* C28: order independence: whichever names the loop has taken so far, in
\* whichever order, each worksheet taken holds what _update_sheet_prices
\* makes of its own file, each worksheet not yet taken is as extracted, the
\* running total is the sum of the counts of the worksheets taken; and the
\* call returns the total and the documents that are fixed by the input.
C28_OrderIndependence ==
  /\ pc = "sheets" =>
       /\ \A n \in Visited :
            tree.files[worksheets_dir \o << n >>] = OfItsOwnFile(n).content
       /\ \A n \in todo :
            tree.files[worksheets_dir \o << n >>]
              = Extracted[worksheets_dir \o << n >>]
       /\ total_updated = SumOfCounts(Visited, Extracted, req)
  /\ (ReturnedNormally /\ e = "none") =>
       /\ ret = Alone(InputFile, Missing, req).ret
       /\ OutputFile = Alone(InputFile, Missing, req).out

\* The listing gave sheet2.xml before sheet1.xml: the second worksheet is
\* rewritten and counted, the first is still to come.
C28_Witness ==
  /\ pc = "sheets"
  /\ todo = {"sheet1.xml"}
  /\ Visited = {"sheet2.xml"}
  /\ OfItsOwnFile("sheet2.xml").count > 0
  /\ OfItsOwnFile("sheet1.xml").count > 0

====
